---------------------------- MODULE Spec2Model ----------------------------
(***************************************************************************)
(* Model of the graph / DNS-zone builder of gwapi-graph                    *)
(* (Handler.buildGraph and the hostname helpers it calls).                 *)
(*                                                                         *)
(* Strings are sequences of tokens: a token is a label ("apps", "com"),    *)
(* the separator "." or the wildcard "*".  strings.Split and strings.Join  *)
(* are modelled on that representation, so a zone name is the token        *)
(* sequence the code would build, and its depth is the number of parts     *)
(* strings.Split finds in it.                                              *)
(***************************************************************************)
EXTENDS Integers, Sequences, FiniteSets, TLC

VARIABLES
    hostname,   \* SpecHost: the hostname handed to the extractor
    hpc,        \* SpecHost: "input" | "zones" | "basic"
    hzones,     \* SpecHost: result of extractHierarchicalZones
    hbasic,     \* SpecHost: result of extractDNSZone
    resources,  \* the ResourceCollection handed to buildGraph
    pc,         \* position inside buildGraph ("idle" between builds)
    idx,        \* position of the outer loop (1-based)
    sub,        \* position of the inner loop (the code's 0-based i)
    nodes,      \* graph.Nodes
    links,      \* graph.Links
    dnsZones,   \* graph.DNSZones
    nodeMap,    \* node ID -> index in graph.Nodes
    nodeIndex,
    dnsZoneMap,         \* zone name -> node IDs
    nodeZoneMap,        \* node ID -> all zones it belongs to
    nodePrimaryZone,    \* node ID -> primary zone
    dnsRecordHostnames, \* hostname -> DNSRecord UID
    zones,      \* the sorted []zoneInfo
    colorIndex,
    builds,     \* number of builds started so far
    returned,   \* the snapshot the previous build returned (<<>> before the first)
    cluster,    \* the resources stored in the cluster, by category
    failing,    \* the categories whose list call to the API server fails
    other,      \* the locals of the other invocation on the Handler, while it is not running
    status,     \* HTTP status of the last GetGraph response (0 before the first)
    stored,     \* resource type -> the object of that type the API server stores
    updateCalls,\* number of Update calls the API server has received
    updates,    \* number of UpdateResource requests handled
    request,    \* the last UpdateResource request
    response,   \* HTTP status of the last UpdateResource response (0 before the first)
    conn,       \* HandleWebSocket: "none" | "failed" (no upgrade) | "open" | "closed" (returned)
    ticks,      \* HandleWebSocket: ticks received from ticker.C
    fetches,    \* HandleWebSocket: calls of fetchAllResources
    writes,     \* HandleWebSocket: calls of conn.WriteJSON
    failedWrites, \* HandleWebSocket: calls of conn.WriteJSON that returned an error
    sent        \* HandleWebSocket: the snapshots written to the connection

hostVars == <<hostname, hpc, hzones, hbasic>>

graphVars == <<nodes, links, dnsZones>>

zoneVars == <<dnsZoneMap, nodeZoneMap, nodePrimaryZone, dnsRecordHostnames>>

buildVars == <<resources, pc, idx, sub, graphVars, nodeMap, nodeIndex, zoneVars,
               zones, colorIndex, builds, returned>>

updateVars == <<stored, updateCalls, updates, request, response>>

wsVars == <<conn, ticks, fetches, writes, failedWrites, sent>>

envVars == <<cluster, failing, other, updateVars, wsVars>>

vars == <<hostVars, buildVars, envVars, status>>

-----------------------------------------------------------------------------
(* Strings *)

Dot == "."
Star == "*"
Empty == <<>>

\* A string literal made of labels: Str(<<"api","example","com">>) is "api.example.com".
RECURSIVE Join(_)
Join(parts) ==
    IF Len(parts) = 0 THEN Empty
    ELSE IF Len(parts) = 1 THEN parts[1]
    ELSE parts[1] \o <<Dot>> \o Join(Tail(parts))

\* strings.Join(parts[i:], ".") with the code's 0-based i
JoinFrom(parts, i) == Join(SubSeq(parts, i + 1, Len(parts)))

\* strings.Split(s, "."): always at least one part; "" splits into [""]
RECURSIVE Split(_)
Split(s) ==
    IF s = Empty THEN <<Empty>>
    ELSE LET rest == Split(Tail(s)) IN
         IF Head(s) = Dot THEN <<Empty>> \o rest
         ELSE << <<Head(s)>> \o Head(rest) >> \o Tail(rest)

HasWildcardPrefix(s) == Len(s) >= 2 /\ s[1] = Star /\ s[2] = Dot

\* if strings.HasPrefix(hostname, "*.") { hostname = strings.TrimPrefix(hostname, "*.") }
TrimWildcard(s) == IF HasWildcardPrefix(s) THEN SubSeq(s, 3, Len(s)) ELSE s

\* if strings.HasSuffix(dnsName, ".") { dnsName = strings.TrimSuffix(dnsName, ".") }
TrimTrailingDot(s) ==
    IF Len(s) >= 1 /\ s[Len(s)] = Dot THEN SubSeq(s, 1, Len(s) - 1) ELSE s

\* parts[i] with the code's 0-based i
At(parts, i) == parts[i + 1]

Label(l) == <<l>>
Str(labels) == Join([k \in 1..Len(labels) |-> Label(labels[k])])

Range(s) == {s[k] : k \in 1..Len(s)}

-----------------------------------------------------------------------------
(* Hostname hierarchy extraction *)

Apps == Label("apps")

\* isOpenShiftStyleDomain
isOpenShiftStyleDomain(parts) ==
    IF Len(parts) < 6 THEN FALSE
    ELSE \E i \in 0..(Len(parts) - 1) :
            At(parts, i) = Apps /\ i > 0 /\ i < Len(parts) - 3

\* the `apps` loop without its `break`: the last `apps` label is the one located
LastAppsIndex(parts) ==
    IF \E i \in 0..(Len(parts) - 1) : At(parts, i) = Apps
    THEN CHOOSE i \in 0..(Len(parts) - 1) :
            /\ At(parts, i) = Apps
            /\ \A j \in (i + 1)..(Len(parts) - 1) : At(parts, j) # Apps
    ELSE -1

\* the loop `for i, part := range parts { if part == "apps" { appsIndex = i; break } }`
FirstAppsIndex(parts) ==
    IF \E i \in 0..(Len(parts) - 1) : At(parts, i) = Apps
    THEN CHOOSE i \in 0..(Len(parts) - 1) :
            /\ At(parts, i) = Apps
            /\ \A j \in 0..(i - 1) : At(parts, j) # Apps
    ELSE -1

\* extractOpenShiftZone without its last branch (`apps` is the first label)
extractOpenShiftZoneNoLeadingApps(parts) ==
    LET appsIndex == FirstAppsIndex(parts) IN
    IF appsIndex = -1 THEN JoinFrom(parts, Len(parts) - 3)
    ELSE IF appsIndex > 0 THEN JoinFrom(parts, appsIndex - 1)
    ELSE Empty

\* extractOpenShiftZone
extractOpenShiftZone(parts) ==
    LET appsIndex == FirstAppsIndex(parts) IN
    IF appsIndex = -1 THEN JoinFrom(parts, Len(parts) - 3)
    ELSE IF appsIndex > 0 THEN JoinFrom(parts, appsIndex - 1)
    ELSE Join(parts)

\* isClusterInternalDomain
isClusterInternalDomain(parts) ==
    LET n == Len(parts) IN
    IF n < 3 THEN FALSE
    ELSE \/ (n >= 2 /\ At(parts, n - 2) = Label("cluster") /\ At(parts, n - 1) = Label("local"))
         \/ (n >= 4 /\ At(parts, n - 4) = Label("svc")
                    /\ At(parts, n - 2) = Label("cluster") /\ At(parts, n - 1) = Label("local"))

\* extractClusterInternalZone
extractClusterInternalZone(parts) ==
    LET n == Len(parts) IN
    IF n >= 4 /\ At(parts, n - 4) = Label("svc") THEN JoinFrom(parts, n - 4)
    ELSE JoinFrom(parts, n - 3)

\* the standard-domain tail of extractDNSZone
StandardZone(parts) ==
    LET n == Len(parts) IN
    IF n >= 6 THEN JoinFrom(parts, n - 4)
    ELSE IF n >= 4 THEN JoinFrom(parts, n - 3)
    ELSE JoinFrom(parts, n - 2)

\* extractDNSZone
extractDNSZone(host) ==
    IF host = Empty THEN Empty
    ELSE LET h == TrimWildcard(host)
             parts == Split(h)
         IN IF Len(parts) < 2 THEN h
            ELSE IF isOpenShiftStyleDomain(parts) THEN extractOpenShiftZone(parts)
            ELSE IF isClusterInternalDomain(parts) THEN extractClusterInternalZone(parts)
            ELSE StandardZone(parts)

\* the OpenShift loop run to i <= len(parts)-1, one iteration too many
RECURSIVE OpenShiftLoopToLast(_, _)
OpenShiftLoopToLast(parts, i) ==
    IF i <= Len(parts) - 1
    THEN (IF i >= 0 THEN <<JoinFrom(parts, i)>> ELSE <<>>) \o OpenShiftLoopToLast(parts, i + 1)
    ELSE <<>>

\* for i := appsIndex - 1; i < len(parts)-1; i++ { if i >= 0 { zones = append(zones, join(parts[i:])) } }
RECURSIVE OpenShiftLoop(_, _)
OpenShiftLoop(parts, i) ==
    IF i < Len(parts) - 1
    THEN (IF i >= 0 THEN <<JoinFrom(parts, i)>> ELSE <<>>) \o OpenShiftLoop(parts, i + 1)
    ELSE <<>>

\* for i := len(parts) - 2; i >= 0; i-- { if i < len(parts)-1 { zones = append(zones, join(parts[i:])) } }
RECURSIVE GenericLoop(_, _)
GenericLoop(parts, i) ==
    IF i >= 0
    THEN (IF i < Len(parts) - 1 THEN <<JoinFrom(parts, i)>> ELSE <<>>) \o GenericLoop(parts, i - 1)
    ELSE <<>>

\* the uniqueZones pass: first occurrence kept, "" dropped
RECURSIVE Dedup(_, _)
Dedup(zs, seen) ==
    IF zs = <<>> THEN <<>>
    ELSE IF Head(zs) \notin seen /\ Head(zs) # Empty
         THEN <<Head(zs)>> \o Dedup(Tail(zs), seen \cup {Head(zs)})
         ELSE Dedup(Tail(zs), seen)

\* the hierarchy reduced to the single zone of extractDNSZone
extractHierarchicalZonesBasicOnly(host) ==
    IF host = Empty THEN <<>>
    ELSE LET h == TrimWildcard(host)
             parts == Split(h)
         IN IF Len(parts) < 2 THEN <<h>> ELSE <<extractDNSZone(h)>>

\* extractHierarchicalZones
extractHierarchicalZones(host) ==
    IF host = Empty THEN <<>>
    ELSE LET h == TrimWildcard(host)
             parts == Split(h)
         IN IF Len(parts) < 2 THEN <<h>>
            ELSE LET zs ==
                        IF isOpenShiftStyleDomain(parts)
                        THEN (LET appsIndex == FirstAppsIndex(parts) IN
                              IF appsIndex > 0 THEN OpenShiftLoop(parts, appsIndex - 1) ELSE <<>>)
                        ELSE GenericLoop(parts, Len(parts) - 2)
                     result == Dedup(zs, {})
                     basicZone == extractDNSZone(h)
                 IN IF basicZone \notin Range(result) /\ basicZone # Empty
                    THEN Append(result, basicZone)
                    ELSE result

\* len(strings.Split(zoneName, "."))
Depth(zoneName) == Len(Split(zoneName))


-----------------------------------------------------------------------------
(* Values of the Go program *)

\* a Go string holding one token
S(tok) == <<tok>>

Digits == <<"0", "1", "2", "3", "4", "5", "6", "7", "8", "9">>

\* the %d verb of fmt.Sprintf, for the small indices of the model
Itoa(i) == S(Digits[i + 1])

\* a nil pointer / an absent map key is <<>>, a set one is <<v>>
Nil == <<>>
Ptr(v) == <<v>>
IsNil(p) == p = <<>>
Deref(p) == p[1]

\* Go maps: a missing key reads as the zero value
EmptyMap == <<>>
Has(m, k) == k \in DOMAIN m
Put(m, k, v) == [x \in (DOMAIN m) \cup {k} |-> IF x = k THEN v ELSE m[x]]
Lookup(m, k) == IF k \in DOMAIN m THEN m[k] ELSE 0
Slice(m, k) == IF k \in DOMAIN m THEN m[k] ELSE <<>>

\* the store done after nodeIndex++ instead of before it
NodeMapPutAfterIncrement(nm, id, index) == Put(nm, id, index + 1)

\* nodeMap[node.ID] = nodeIndex
NodeMapPut(nm, id, index) == Put(nm, id, index)

RECURSIVE Concat(_)
Concat(ss) == IF ss = <<>> THEN <<>> ELSE Head(ss) \o Concat(Tail(ss))

\* the listener ID built without the listener's own index
ListenerIDWithoutIndex(uid, i) == uid \o S("-listener-") \o Itoa(0)

\* fmt.Sprintf("%s-listener-%d", string(gw.UID), i)
ListenerID(uid, i) == uid \o S("-listener-") \o Itoa(i)

\* the default listener name counting from 1
ListenerDefaultNameOneBased(i) == S("listener-") \o Itoa(i + 1)

\* fmt.Sprintf("listener-%d", i)
ListenerDefaultName(i) == S("listener-") \o Itoa(i)

NewNode(id, name, type, ns, group, version) ==
    [ID |-> id, Name |-> name, Type |-> type, Namespace |-> ns,
     Group |-> group, Version |-> version, Kind |-> type,
     ParentID |-> Nil, Hidden |-> FALSE, ListenerData |-> Nil,
     Hostname |-> Empty, DNSZone |-> Empty]

\* a link built with its two indices exchanged
NewLinkReversed(source, target, type) == [Source |-> target, Target |-> source, Type |-> type]

\* types.Link{Source: ..., Target: ..., Type: ...}
NewLink(source, target, type) == [Source |-> source, Target |-> target, Type |-> type]

GatewayGroup == S("gateway.networking.k8s.io")

-----------------------------------------------------------------------------
(* buildGraph: nodes and links *)

\* for _, gc := range resources.GatewayClasses { ... }
AddGatewayClass ==
    /\ pc = "gatewayClasses"
    /\ IF idx <= Len(resources.GatewayClasses)
       THEN LET gc == resources.GatewayClasses[idx]
                node == NewNode(gc.UID, gc.Name, "GatewayClass", Empty, GatewayGroup, "v1")
            IN /\ nodes' = Append(nodes, node)
               /\ nodeMap' = NodeMapPut(nodeMap, node.ID, nodeIndex)
               /\ nodeIndex' = nodeIndex + 1
               /\ idx' = idx + 1
               /\ pc' = pc
       ELSE /\ pc' = "gateways"
            /\ idx' = 1
            /\ UNCHANGED <<nodes, nodeMap, nodeIndex>>
    /\ UNCHANGED <<hostVars, envVars, status, resources, sub, links, dnsZones, zoneVars, zones,
                   colorIndex, builds, returned>>

\* for _, gw := range resources.Gateways { node := ...; append }
AddGateway ==
    /\ pc = "gateways"
    /\ IF idx <= Len(resources.Gateways)
       THEN LET gw == resources.Gateways[idx]
                node == NewNode(gw.UID, gw.Name, "Gateway", gw.Namespace, GatewayGroup, "v1")
            IN /\ nodes' = Append(nodes, node)
               /\ nodeMap' = NodeMapPut(nodeMap, node.ID, nodeIndex)
               /\ nodeIndex' = nodeIndex + 1
               /\ pc' = "listeners"
               /\ sub' = 0
               /\ idx' = idx
       ELSE /\ pc' = "httpRoutes"
            /\ idx' = 1
            /\ UNCHANGED <<nodes, nodeMap, nodeIndex, sub>>
    /\ UNCHANGED <<hostVars, envVars, status, resources, links, dnsZones, zoneVars, zones,
                   colorIndex, builds, returned>>

\* the Listener node synthesized for gw.Spec.Listeners[i]
ListenerNode(gw, i) ==
    LET listener == At(gw.Spec.Listeners, i)
        listenerName == IF listener.Name = Empty THEN ListenerDefaultName(i) ELSE listener.Name
        host == IF IsNil(listener.Hostname) THEN Empty ELSE Deref(listener.Hostname)
    IN [NewNode(ListenerID(gw.UID, i), listenerName, "Listener", gw.Namespace,
                GatewayGroup, "v1")
            EXCEPT !.ParentID = Ptr(gw.UID),
                   !.ListenerData = Ptr([Port |-> listener.Port,
                                         Protocol |-> listener.Protocol,
                                         Hostname |-> IF host # Empty THEN Ptr(host) ELSE Nil,
                                         TLS |-> ~IsNil(listener.TLS)])]

\* for i, listener := range gw.Spec.Listeners { listener node; listener link }
AddListener ==
    /\ pc = "listeners"
    /\ LET gw == resources.Gateways[idx] IN
       IF sub < Len(gw.Spec.Listeners)
       THEN LET listenerNode == ListenerNode(gw, sub)
                nm == NodeMapPut(nodeMap, listenerNode.ID, nodeIndex)
            IN /\ nodes' = Append(nodes, listenerNode)
               /\ nodeMap' = nm
               /\ nodeIndex' = nodeIndex + 1
               /\ links' = Append(links, NewLink(Lookup(nm, gw.UID),
                                                 Lookup(nm, listenerNode.ID), "listener"))
               /\ sub' = sub + 1
               /\ pc' = pc
       ELSE /\ pc' = "classRef"
            /\ UNCHANGED <<nodes, nodeMap, nodeIndex, links, sub>>
    /\ UNCHANGED <<hostVars, envVars, status, resources, idx, dnsZones, zoneVars, zones,
                   colorIndex, builds, returned>>

\* the first GatewayClass in list order named gw.Spec.GatewayClassName (0 if none)
RECURSIVE FirstClassMatch(_, _, _)
FirstClassMatch(gcs, className, k) ==
    IF k > Len(gcs) THEN 0
    ELSE IF className = gcs[k].Name THEN k
    ELSE FirstClassMatch(gcs, className, k + 1)

\* the class loop without its `break`: one link per GatewayClass of that name
GatewayClassLinksNoBreak(gw, gcs, nm) ==
    IF gw.Spec.GatewayClassName # Empty
    THEN LET matching == SelectSeq(gcs, LAMBDA gc : gw.Spec.GatewayClassName = gc.Name)
         IN [k \in 1..Len(matching) |->
                NewLink(Lookup(nm, matching[k].UID), Lookup(nm, gw.UID), "gatewayClassRef")]
    ELSE <<>>

\* if gw.Spec.GatewayClassName != "" { for ... { if name matches { link; break } } }
GatewayClassLinks(gw, gcs, nm) ==
    IF gw.Spec.GatewayClassName # Empty
    THEN LET k == FirstClassMatch(gcs, gw.Spec.GatewayClassName, 1) IN
         IF k = 0 THEN <<>>
         ELSE <<NewLink(Lookup(nm, gcs[k].UID), Lookup(nm, gw.UID), "gatewayClassRef")>>
    ELSE <<>>

LinkGatewayClass ==
    /\ pc = "classRef"
    /\ links' = links \o GatewayClassLinks(resources.Gateways[idx],
                                           resources.GatewayClasses, nodeMap)
    /\ pc' = "gateways"
    /\ idx' = idx + 1
    /\ UNCHANGED <<hostVars, envVars, status, resources, sub, nodes, dnsZones, nodeMap, nodeIndex,
                   zoneVars, zones, colorIndex, builds, returned>>

\* the condition of the parentRef loop
ParentRefMatchesGatewayNamespace(parentRef, route, gw) ==
    /\ (parentRef.Name = Empty \/ parentRef.Name = gw.Name)
    /\ \/ IsNil(parentRef.Namespace)
       \/ Deref(parentRef.Namespace) = gw.Namespace

ParentRefMatches(parentRef, route, gw) ==
    /\ (parentRef.Name = Empty \/ parentRef.Name = gw.Name)
    /\ \/ IsNil(parentRef.Namespace)
       \/ Deref(parentRef.Namespace) = route.Namespace
       \/ Deref(parentRef.Namespace) = gw.Namespace

\* for _, parentRef := range route.Spec.ParentRefs { for _, gw := range resources.Gateways { ... } }
ParentRefLinks(route, gws, nm) ==
    Concat([p \in 1..Len(route.Spec.ParentRefs) |->
              LET matching == SelectSeq(gws, LAMBDA gw :
                                  ParentRefMatches(route.Spec.ParentRefs[p], route, gw))
              IN [g \in 1..Len(matching) |->
                    NewLink(Lookup(nm, matching[g].UID), Lookup(nm, route.UID), "parentRef")]])

\* for _, route := range resources.HTTPRoutes { node; parentRef links }
AddHTTPRoute ==
    /\ pc = "httpRoutes"
    /\ IF idx <= Len(resources.HTTPRoutes)
       THEN LET route == resources.HTTPRoutes[idx]
                node == NewNode(route.UID, route.Name, "HTTPRoute", route.Namespace,
                                GatewayGroup, "v1")
                nm == NodeMapPut(nodeMap, node.ID, nodeIndex)
            IN /\ nodes' = Append(nodes, node)
               /\ nodeMap' = nm
               /\ nodeIndex' = nodeIndex + 1
               /\ links' = links \o ParentRefLinks(route, resources.Gateways, nm)
               /\ idx' = idx + 1
               /\ pc' = pc
       ELSE /\ pc' = "referenceGrants"
            /\ idx' = 1
            /\ UNCHANGED <<nodes, nodeMap, nodeIndex, links>>
    /\ UNCHANGED <<hostVars, envVars, status, resources, sub, dnsZones, zoneVars, zones,
                   colorIndex, builds, returned>>

\* for _, grant := range resources.ReferenceGrants { node }
AddReferenceGrant ==
    /\ pc = "referenceGrants"
    /\ IF idx <= Len(resources.ReferenceGrants)
       THEN LET grant == resources.ReferenceGrants[idx]
                node == NewNode(grant.UID, grant.Name, "ReferenceGrant", grant.Namespace,
                                GatewayGroup, "v1beta1")
            IN /\ nodes' = Append(nodes, node)
               /\ nodeMap' = NodeMapPut(nodeMap, node.ID, nodeIndex)
               /\ nodeIndex' = nodeIndex + 1
               /\ idx' = idx + 1
               /\ pc' = pc
       ELSE /\ pc' = "dnsRecords"
            /\ idx' = 1
            /\ UNCHANGED <<nodes, nodeMap, nodeIndex>>
    /\ UNCHANGED <<hostVars, envVars, status, resources, sub, links, dnsZones, zoneVars, zones,
                   colorIndex, builds, returned>>

\* the Gateway looked up by name alone, whatever its namespace
RECURSIVE FirstGatewayAnyNamespace(_, _, _, _)
FirstGatewayAnyNamespace(gws, name, ns, k) ==
    IF k > Len(gws) THEN 0
    ELSE IF gws[k].Name = name THEN k
    ELSE FirstGatewayAnyNamespace(gws, name, ns, k + 1)

\* the first Gateway in list order with the given name and namespace (0 if none)
RECURSIVE FirstGateway(_, _, _, _)
FirstGateway(gws, name, ns, k) ==
    IF k > Len(gws) THEN 0
    ELSE IF gws[k].Name = name /\ gws[k].Namespace = ns THEN k
    ELSE FirstGateway(gws, name, ns, k + 1)

\* the listener loop without its `break`: the last matching listener wins
RECURSIVE LastListenerMatch(_, _, _, _)
LastListenerMatch(gw, dnsName, nm, i) ==
    IF i >= Len(gw.Spec.Listeners) THEN -1
    ELSE LET listener == At(gw.Spec.Listeners, i)
             later == LastListenerMatch(gw, dnsName, nm, i + 1)
         IN IF later >= 0 THEN later
            ELSE IF /\ ~IsNil(listener.Hostname)
                    /\ Deref(listener.Hostname) = dnsName
                    /\ Has(nm, ListenerID(gw.UID, i))
            THEN i
            ELSE -1

\* the first listener index i whose hostname equals dnsName and whose node is in nodeMap (-1 if none)
RECURSIVE FirstListenerMatch(_, _, _, _)
FirstListenerMatch(gw, dnsName, nm, i) ==
    IF i >= Len(gw.Spec.Listeners) THEN -1
    ELSE LET listener == At(gw.Spec.Listeners, i) IN
         IF /\ ~IsNil(listener.Hostname)
            /\ Deref(listener.Hostname) = dnsName
            /\ Has(nm, ListenerID(gw.UID, i))
         THEN i
         ELSE FirstListenerMatch(gw, dnsName, nm, i + 1)

\* the gateway-name label block of the DNSRecord loop: at most one dnsRecord link
DNSRecordLinks(dns, gws, nm) ==
    IF IsNil(dns.GatewayNameLabel) THEN <<>>
    ELSE LET dnsName == TrimTrailingDot(dns.DNSName)
             g == FirstGateway(gws, Deref(dns.GatewayNameLabel), dns.Namespace, 1)
         IN IF g = 0 THEN <<>>
            ELSE LET gw == gws[g]
                     i == FirstListenerMatch(gw, dnsName, nm, 0)
                 IN IF i >= 0
                    THEN <<NewLink(nm[ListenerID(gw.UID, i)], Lookup(nm, dns.UID), "dnsRecord")>>
                    ELSE IF Has(nm, gw.UID)
                    THEN <<NewLink(nm[gw.UID], Lookup(nm, dns.UID), "dnsRecord")>>
                    ELSE <<>>

\* for _, dns := range resources.DNSRecords { node; dnsRecord link }
AddDNSRecord ==
    /\ pc = "dnsRecords"
    /\ IF idx <= Len(resources.DNSRecords)
       THEN LET dns == resources.DNSRecords[idx]
                node == [NewNode(dns.UID, dns.Name, "DNSRecord", dns.Namespace,
                                 S("ingress.operator.openshift.io"), "v1")
                            EXCEPT !.Hostname = TrimTrailingDot(dns.DNSName)]
                nm == NodeMapPut(nodeMap, node.ID, nodeIndex)
            IN /\ nodes' = Append(nodes, node)
               /\ nodeMap' = nm
               /\ nodeIndex' = nodeIndex + 1
               /\ links' = links \o DNSRecordLinks(dns, resources.Gateways, nm)
               /\ idx' = idx + 1
               /\ pc' = pc
       ELSE /\ pc' = "services"
            /\ idx' = 1
            /\ UNCHANGED <<nodes, nodeMap, nodeIndex, links>>
    /\ UNCHANGED <<hostVars, envVars, status, resources, sub, dnsZones, zoneVars, zones,
                   colorIndex, builds, returned>>

\* for _, svc := range resources.Services { node }
AddService ==
    /\ pc = "services"
    /\ IF idx <= Len(resources.Services)
       THEN LET svc == resources.Services[idx]
                node == NewNode(svc.UID, svc.Name, "Service", svc.Namespace, Empty, "v1")
            IN /\ nodes' = Append(nodes, node)
               /\ nodeMap' = NodeMapPut(nodeMap, node.ID, nodeIndex)
               /\ nodeIndex' = nodeIndex + 1
               /\ idx' = idx + 1
               /\ pc' = pc
       ELSE /\ pc' = "zoneDNSRecords"
            /\ idx' = 1
            /\ UNCHANGED <<nodes, nodeMap, nodeIndex>>
    /\ UNCHANGED <<hostVars, envVars, status, resources, sub, links, dnsZones, zoneVars, zones,
                   colorIndex, builds, returned>>

-----------------------------------------------------------------------------
(* buildGraph: zones *)

\* the three accumulators the zone loops write
ZoneState(zm, nzm, npz) == [dnsZoneMap |-> zm, nodeZoneMap |-> nzm, nodePrimaryZone |-> npz]

\* the zone loop registering the zone name without appending the node ID to it
RECURSIVE AssignZonesWithoutMember(_, _, _)
AssignZonesWithoutMember(st, id, zs) ==
    IF zs = <<>> THEN st
    ELSE AssignZonesWithoutMember(
            [st EXCEPT !.dnsZoneMap = Put(st.dnsZoneMap, Head(zs),
                                          Slice(st.dnsZoneMap, Head(zs))),
                       !.nodeZoneMap = Put(st.nodeZoneMap, id,
                                           Append(Slice(st.nodeZoneMap, id), Head(zs)))],
            id, Tail(zs))

\* for _, zone := range zs { dnsZoneMap[zone] = append(.., id); nodeZoneMap[id] = append(.., zone) }
RECURSIVE AssignZones(_, _, _)
AssignZones(st, id, zs) ==
    IF zs = <<>> THEN st
    ELSE AssignZones(
            [st EXCEPT !.dnsZoneMap = Put(st.dnsZoneMap, Head(zs),
                                          Append(Slice(st.dnsZoneMap, Head(zs)), id)),
                       !.nodeZoneMap = Put(st.nodeZoneMap, id,
                                           Append(Slice(st.nodeZoneMap, id), Head(zs)))],
            id, Tail(zs))

\* the body of the DNSRecord zone loop, for one record with a non-empty dnsName
DNSRecordZones(st, dnsUID, dnsName) ==
    LET zs == extractHierarchicalZones(dnsName) IN
    IF Len(zs) > 0
    THEN [AssignZones(st, dnsUID, zs) EXCEPT
              !.nodePrimaryZone = Put(st.nodePrimaryZone, dnsUID, zs[1])]
    ELSE st

\* for _, dns := range resources.DNSRecords { ... }  (the zone pass)
ZoneDNSRecord ==
    /\ pc = "zoneDNSRecords"
    /\ IF idx <= Len(resources.DNSRecords)
       THEN LET dns == resources.DNSRecords[idx]
                dnsName == TrimTrailingDot(dns.DNSName)
                st == ZoneState(dnsZoneMap, nodeZoneMap, nodePrimaryZone)
                st2 == IF dnsName # Empty THEN DNSRecordZones(st, dns.UID, dnsName) ELSE st
            IN /\ dnsRecordHostnames' =
                      IF dnsName # Empty THEN Put(dnsRecordHostnames, dnsName, dns.UID)
                      ELSE dnsRecordHostnames
               /\ dnsZoneMap' = st2.dnsZoneMap
               /\ nodeZoneMap' = st2.nodeZoneMap
               /\ nodePrimaryZone' = st2.nodePrimaryZone
               /\ idx' = idx + 1
               /\ pc' = pc
               /\ sub' = sub
       ELSE /\ pc' = "zoneRoutes"
            /\ idx' = 1
            /\ sub' = 0
            /\ UNCHANGED zoneVars
    /\ UNCHANGED <<hostVars, envVars, status, resources, graphVars, nodeMap, nodeIndex, zones,
                   colorIndex, builds, returned>>

\* the inheritance branch: taken when the hostname has a DNSRecord whose zones are recorded
Inherits(st, hosts, hostnameStr) ==
    Has(hosts, hostnameStr) /\ Has(st.nodeZoneMap, hosts[hostnameStr])

\* the inheritance branch copying the zones but not the primary zone
InheritZonesWithoutPrimary(st, hosts, hostnameStr, id) ==
    AssignZones(st, id, st.nodeZoneMap[hosts[hostnameStr]])

\* the inheritance branch: copy the DNSRecord's zones and primary zone
InheritZones(st, hosts, hostnameStr, id) ==
    LET dnsUID == hosts[hostnameStr]
        st2 == AssignZones(st, id, st.nodeZoneMap[dnsUID])
    IN IF Has(st.nodePrimaryZone, dnsUID)
       THEN [st2 EXCEPT !.nodePrimaryZone = Put(st.nodePrimaryZone, id,
                                                st.nodePrimaryZone[dnsUID])]
       ELSE st2

\* the extraction branch registering the hostname, not the node ID, as the zone member
ExtractZonesUnderHostname(st, hostnameStr, id) ==
    LET zs == extractHierarchicalZones(hostnameStr) IN
    IF Len(zs) > 0
    THEN LET st2 == AssignZones(st, hostnameStr, zs) IN
         IF ~Has(st.nodePrimaryZone, id)
         THEN [st2 EXCEPT !.nodePrimaryZone = Put(st.nodePrimaryZone, id, zs[1])]
         ELSE st2
    ELSE st

\* the extraction branch: zones of the hostname itself; primary zone set if none yet
ExtractZones(st, hostnameStr, id) ==
    LET zs == extractHierarchicalZones(hostnameStr) IN
    IF Len(zs) > 0
    THEN LET st2 == AssignZones(st, id, zs) IN
         IF ~Has(st.nodePrimaryZone, id)
         THEN [st2 EXCEPT !.nodePrimaryZone = Put(st.nodePrimaryZone, id, zs[1])]
         ELSE st2
    ELSE st

\* the inheritance branch falling through into the extraction branch
HostnameZonesFallThrough(st, hosts, hostnameStr, id) ==
    IF Inherits(st, hosts, hostnameStr)
    THEN ExtractZones(InheritZones(st, hosts, hostnameStr, id), hostnameStr, id)
    ELSE ExtractZones(st, hostnameStr, id)

\* one hostname of a route or listener: the accumulators after it
HostnameZones(st, hosts, hostnameStr, id) ==
    IF Inherits(st, hosts, hostnameStr) THEN InheritZones(st, hosts, hostnameStr, id)
    ELSE ExtractZones(st, hostnameStr, id)

\* the hostname loop without its `break`s: every hostname of the route is processed
RouteScanNeverBreaks(st, hosts, hostnameStr) == FALSE

\* whether the route's hostname loop stops after this hostname (either `break`)
RouteScanBreaks(st, hosts, hostnameStr) ==
    Inherits(st, hosts, hostnameStr) \/ Len(extractHierarchicalZones(hostnameStr)) > 0

\* for _, route := range resources.HTTPRoutes { for _, hostname := range route.Spec.Hostnames { ... } }
ZoneRouteHostname ==
    /\ pc = "zoneRoutes"
    /\ IF idx > Len(resources.HTTPRoutes)
       THEN /\ pc' = "zoneListeners"
            /\ idx' = 1
            /\ sub' = 0
            /\ UNCHANGED zoneVars
       ELSE LET route == resources.HTTPRoutes[idx] IN
            IF sub >= Len(route.Spec.Hostnames)
            THEN /\ idx' = idx + 1
                 /\ sub' = 0
                 /\ pc' = pc
                 /\ UNCHANGED zoneVars
            ELSE LET hostnameStr == At(route.Spec.Hostnames, sub)
                     st == ZoneState(dnsZoneMap, nodeZoneMap, nodePrimaryZone)
                     st2 == HostnameZones(st, dnsRecordHostnames, hostnameStr, route.UID)
                 IN /\ dnsZoneMap' = st2.dnsZoneMap
                    /\ nodeZoneMap' = st2.nodeZoneMap
                    /\ nodePrimaryZone' = st2.nodePrimaryZone
                    /\ UNCHANGED dnsRecordHostnames
                    /\ pc' = pc
                    /\ IF RouteScanBreaks(st, dnsRecordHostnames, hostnameStr)
                       THEN idx' = idx + 1 /\ sub' = 0
                       ELSE idx' = idx /\ sub' = sub + 1
    /\ UNCHANGED <<hostVars, envVars, status, resources, graphVars, nodeMap, nodeIndex, zones,
                   colorIndex, builds, returned>>

\* for _, gw := range resources.Gateways { for i, listener := range gw.Spec.Listeners { ... } }
ZoneListener ==
    /\ pc = "zoneListeners"
    /\ IF idx > Len(resources.Gateways)
       THEN /\ pc' = "updateNodes"
            /\ UNCHANGED <<idx, sub, zoneVars>>
       ELSE LET gw == resources.Gateways[idx] IN
            IF sub >= Len(gw.Spec.Listeners)
            THEN /\ idx' = idx + 1
                 /\ sub' = 0
                 /\ pc' = pc
                 /\ UNCHANGED zoneVars
            ELSE LET listener == At(gw.Spec.Listeners, sub)
                     st == ZoneState(dnsZoneMap, nodeZoneMap, nodePrimaryZone)
                     st2 == IF ~IsNil(listener.Hostname)
                            THEN HostnameZones(st, dnsRecordHostnames,
                                               Deref(listener.Hostname),
                                               ListenerID(gw.UID, sub))
                            ELSE st
                 IN /\ dnsZoneMap' = st2.dnsZoneMap
                    /\ nodeZoneMap' = st2.nodeZoneMap
                    /\ nodePrimaryZone' = st2.nodePrimaryZone
                    /\ UNCHANGED dnsRecordHostnames
                    /\ pc' = pc
                    /\ idx' = idx
                    /\ sub' = sub + 1
    /\ UNCHANGED <<hostVars, envVars, status, resources, graphVars, nodeMap, nodeIndex, zones,
                   colorIndex, builds, returned>>

\* for i := range graph.Nodes { if primaryZone, exists := nodePrimaryZone[ID]; exists { DNSZone = primaryZone } }
UpdateNodes ==
    /\ pc = "updateNodes"
    /\ nodes' = [k \in 1..Len(nodes) |->
                    IF Has(nodePrimaryZone, nodes[k].ID)
                    THEN [nodes[k] EXCEPT !.DNSZone = nodePrimaryZone[nodes[k].ID]]
                    ELSE nodes[k]]
    /\ pc' = "sortZones"
    /\ UNCHANGED <<hostVars, envVars, status, resources, idx, sub, links, dnsZones, nodeMap, nodeIndex,
                   zoneVars, zones, colorIndex, builds, returned>>

ZoneInfo(zm, zoneName) ==
    [name |-> zoneName, nodeIDs |-> zm[zoneName], depth |-> Depth(zoneName)]

\* The orders `range dnsZoneMap` followed by sort.Slice (not stable) can leave the
\* zones in: depth descending, zones of equal depth in any order.
RECURSIVE SortedOrders(_, _)
SortedOrders(zm, names) ==
    IF names = {} THEN {<<>>}
    ELSE LET deepest == {z \in names : \A y \in names : Depth(z) >= Depth(y)} IN
         UNION {{<<ZoneInfo(zm, z)>> \o rest : rest \in SortedOrders(zm, names \ {z})}
                    : z \in deepest}

\* var zones []zoneInfo; for zoneName, nodeIDs := range dnsZoneMap {...}; sort.Slice(zones, ...)
SortZones ==
    /\ pc = "sortZones"
    /\ zones' \in SortedOrders(dnsZoneMap, DOMAIN dnsZoneMap)
    /\ pc' = "createZones"
    /\ idx' = 1
    /\ colorIndex' = 0
    /\ UNCHANGED <<hostVars, envVars, status, resources, sub, graphVars, nodeMap, nodeIndex, zoneVars,
                   builds, returned>>

Count(s, x) == Cardinality({k \in 1..Len(s) : s[k] = x})

\* slicesEqual
slicesEqual(a, b) ==
    IF Len(a) # Len(b) THEN FALSE
    ELSE \A key \in Range(a) : Count(b, key) = Count(a, key)

\* the shouldCreateZone loop comparing depths with >= instead of >
ShouldCreateZoneGeq(zoneInfo, zs) ==
    ~\E k \in 1..Len(zs) :
        /\ zs[k].depth >= zoneInfo.depth
        /\ Len(zs[k].nodeIDs) = Len(zoneInfo.nodeIDs)
        /\ slicesEqual(zs[k].nodeIDs, zoneInfo.nodeIDs)

\* the shouldCreateZone loop
ShouldCreateZone(zoneInfo, zs) ==
    ~\E k \in 1..Len(zs) :
        /\ zs[k].depth > zoneInfo.depth
        /\ Len(zs[k].nodeIDs) = Len(zoneInfo.nodeIDs)
        /\ slicesEqual(zs[k].nodeIDs, zoneInfo.nodeIDs)

zoneColors == <<"#e3f2fd", "#f3e5f5", "#e8f5e8", "#fff3e0",
                "#fce4ec", "#e0f2f1", "#f9fbe7", "#fff8e1">>

\* for _, zoneInfo := range zones { if shouldCreateZone { append; colorIndex++ } }
CreateZone ==
    /\ pc = "createZones"
    /\ IF idx <= Len(zones)
       THEN /\ IF ShouldCreateZone(zones[idx], zones)
               THEN /\ dnsZones' = Append(dnsZones,
                                          [Name |-> zones[idx].name,
                                           Nodes |-> zones[idx].nodeIDs,
                                           Color |-> zoneColors[(colorIndex % Len(zoneColors)) + 1]])
                    /\ colorIndex' = colorIndex + 1
               ELSE UNCHANGED <<dnsZones, colorIndex>>
            /\ idx' = idx + 1
            /\ pc' = pc
       ELSE /\ pc' = "backendRefs"
            /\ idx' = 1
            /\ UNCHANGED <<dnsZones, colorIndex>>
    /\ UNCHANGED <<hostVars, envVars, status, resources, sub, nodes, links, nodeMap, nodeIndex, zoneVars,
                   zones, builds, returned>>

\* the first Service in list order with the given name and namespace (0 if none)
RECURSIVE FirstService(_, _, _, _)
FirstService(svcs, name, ns, k) ==
    IF k > Len(svcs) THEN 0
    ELSE IF svcs[k].Name = name /\ svcs[k].Namespace = ns THEN k
    ELSE FirstService(svcs, name, ns, k + 1)

\* one backendRef: the link to the first matching Service, if any
BackendRefLink(route, backendRef, svcs, nm) ==
    LET serviceNamespace == IF ~IsNil(backendRef.Namespace) THEN Deref(backendRef.Namespace)
                            ELSE route.Namespace
        k == FirstService(svcs, backendRef.Name, serviceNamespace, 1)
    IN IF k = 0 THEN <<>>
       ELSE <<NewLink(Lookup(nm, route.UID), Lookup(nm, svcs[k].UID), "backendRef")>>

\* the backendRef loops keeping one link per Service: a repeated reference adds nothing
BackendRefLinksDeduplicated(route, svcs, nm) ==
    LET all == Concat([r \in 1..Len(route.Spec.Rules) |->
                  Concat([b \in 1..Len(route.Spec.Rules[r].BackendRefs) |->
                            BackendRefLink(route, route.Spec.Rules[r].BackendRefs[b], svcs, nm)])])
    IN IF all = <<>> THEN <<>>
       ELSE <<all[1]>> \o SelectSeq(Tail(all), LAMBDA l : l # all[1])

\* for _, rule := range route.Spec.Rules { for _, backendRef := range rule.BackendRefs { ... } }
BackendRefLinks(route, svcs, nm) ==
    Concat([r \in 1..Len(route.Spec.Rules) |->
              Concat([b \in 1..Len(route.Spec.Rules[r].BackendRefs) |->
                        BackendRefLink(route, route.Spec.Rules[r].BackendRefs[b], svcs, nm)])])

\* for _, route := range resources.HTTPRoutes { backendRef links }; return graph
LinkBackendRefs ==
    /\ pc = "backendRefs"
    /\ IF idx <= Len(resources.HTTPRoutes)
       THEN /\ links' = links \o BackendRefLinks(resources.HTTPRoutes[idx],
                                                 resources.Services, nodeMap)
            /\ idx' = idx + 1
            /\ pc' = pc
       ELSE /\ pc' = "return"
            /\ UNCHANGED <<links, idx>>
    /\ UNCHANGED <<hostVars, envVars, status, resources, sub, nodes, dnsZones, nodeMap, nodeIndex,
                   zoneVars, zones, colorIndex, builds, returned>>

Graph == [Nodes |-> nodes, Links |-> links, DNSZones |-> dnsZones]

\* return graph  (GetGraph then writes it to the client)
Return ==
    /\ pc = "return"
    /\ returned' = <<Graph>>
    /\ status' = 200
    /\ pc' = "idle"
    /\ UNCHANGED <<hostVars, envVars, resources, idx, sub, graphVars, nodeMap, nodeIndex,
                   zoneVars, zones, colorIndex, builds>>

MaxBuilds == 3

\* the locals of a buildGraph invocation and the collection it was handed
Frame ==
    [resources |-> resources, pc |-> pc, idx |-> idx, sub |-> sub,
     nodes |-> nodes, links |-> links, dnsZones |-> dnsZones,
     nodeMap |-> nodeMap, nodeIndex |-> nodeIndex,
     dnsZoneMap |-> dnsZoneMap, nodeZoneMap |-> nodeZoneMap,
     nodePrimaryZone |-> nodePrimaryZone, dnsRecordHostnames |-> dnsRecordHostnames,
     zones |-> zones, colorIndex |-> colorIndex]

\* the frame of a goroutine that has not called buildGraph
IdleFrame ==
    [resources |-> [c \in {"GatewayClasses", "Gateways", "HTTPRoutes", "ReferenceGrants",
                           "DNSRecords", "Services"} |-> <<>>],
     pc |-> "idle", idx |-> 1, sub |-> 0,
     nodes |-> <<>>, links |-> <<>>, dnsZones |-> <<>>,
     nodeMap |-> EmptyMap, nodeIndex |-> 0,
     dnsZoneMap |-> EmptyMap, nodeZoneMap |-> EmptyMap,
     nodePrimaryZone |-> EmptyMap, dnsRecordHostnames |-> EmptyMap,
     zones |-> <<>>, colorIndex |-> 0]

\* the scheduler with dnsZoneMap a field of the Handler: shared by the invocations
SwitchSharingZoneMap ==
    /\ returned # <<>>
    /\ other' = Frame
    /\ resources' = other.resources
    /\ pc' = other.pc
    /\ idx' = other.idx
    /\ sub' = other.sub
    /\ nodes' = other.nodes
    /\ links' = other.links
    /\ dnsZones' = other.dnsZones
    /\ nodeMap' = other.nodeMap
    /\ nodeIndex' = other.nodeIndex
    /\ dnsZoneMap' = dnsZoneMap
    /\ nodeZoneMap' = other.nodeZoneMap
    /\ nodePrimaryZone' = other.nodePrimaryZone
    /\ dnsRecordHostnames' = other.dnsRecordHostnames
    /\ zones' = other.zones
    /\ colorIndex' = other.colorIndex
    /\ UNCHANGED <<hostVars, cluster, failing, updateVars, wsVars, builds, returned, status>>

\* the scheduler runs the other goroutine (the GetGraph request, a HandleWebSocket
\* tick): every local of buildGraph belongs to the invocation, the Handler holds none
Switch ==
    /\ returned # <<>>
    /\ other' = Frame
    /\ resources' = other.resources
    /\ pc' = other.pc
    /\ idx' = other.idx
    /\ sub' = other.sub
    /\ nodes' = other.nodes
    /\ links' = other.links
    /\ dnsZones' = other.dnsZones
    /\ nodeMap' = other.nodeMap
    /\ nodeIndex' = other.nodeIndex
    /\ dnsZoneMap' = other.dnsZoneMap
    /\ nodeZoneMap' = other.nodeZoneMap
    /\ nodePrimaryZone' = other.nodePrimaryZone
    /\ dnsRecordHostnames' = other.dnsRecordHostnames
    /\ zones' = other.zones
    /\ colorIndex' = other.colorIndex
    /\ UNCHANGED <<hostVars, cluster, failing, updateVars, wsVars, builds, returned, status>>

Categories ==
    {"GatewayClasses", "Gateways", "HTTPRoutes", "ReferenceGrants", "DNSRecords", "Services"}

\* a list call of the client: (items, nil), or (nil, err) when the API server fails it
ListCall(store, category, failed) ==
    IF category \in failed THEN [items |-> <<>>, err |-> Ptr("failed to list")]
    ELSE [items |-> store[category], err |-> Nil]

\* fetchAllResources aborting on the first list call that fails
fetchAllResourcesOrError(store, failed) ==
    [collection |-> [c \in Categories |-> ListCall(store, c, failed).items],
     err |-> IF failed = {} THEN Nil ELSE Ptr("failed to list")]

\* fetchAllResources: a category is assigned only if its list call returned no error
fetchAllResources(store, failed) ==
    [collection |-> [c \in Categories |->
                        LET call == ListCall(store, c, failed) IN
                        IF IsNil(call.err) THEN call.items ELSE <<>>],
     err |-> Nil]

\* GetGraph: fetchAllResources, then on an error the 500 response, else a fresh
\* buildGraph over the fetched collection
GetGraph ==
    /\ pc = "idle"
    /\ builds < MaxBuilds
    /\ builds' = builds + 1
    /\ LET fetched == fetchAllResources(cluster, failing) IN
       IF ~IsNil(fetched.err)
       THEN /\ status' = 500
            /\ UNCHANGED <<resources, pc, idx, sub, graphVars, nodeMap, nodeIndex,
                           zoneVars, zones, colorIndex>>
       ELSE /\ resources' = fetched.collection
            /\ nodes' = <<>>
            /\ links' = <<>>
            /\ dnsZones' = <<>>
            /\ nodeMap' = EmptyMap
            /\ nodeIndex' = 0
            /\ dnsZoneMap' = EmptyMap
            /\ nodeZoneMap' = EmptyMap
            /\ nodePrimaryZone' = EmptyMap
            /\ dnsRecordHostnames' = EmptyMap
            /\ zones' = <<>>
            /\ colorIndex' = 0
            /\ idx' = 1
            /\ sub' = 0
            /\ pc' = "gatewayClasses"
            /\ UNCHANGED status
    /\ UNCHANGED <<hostVars, envVars, returned>>

-----------------------------------------------------------------------------
(* UpdateResource and the Update functions of the client *)

ResourceTypes ==
    {"gatewayclass", "gateway", "httproute", "referencegrant", "service", "dnsrecord"}

\* the object every type starts with: its spec has two fields
StoredObject ==
    [Name |-> "r1", Namespace |-> "ns1", Spec |-> [f |-> "v0", g |-> "v0"],
     Labels |-> "l0", Annotations |-> "a0"]

NoRequest == [type |-> "", name |-> "", namespace |-> "", body |-> Nil]

\* json.Unmarshal(specBytes, &existing.Spec): the fields of the payload are set, the
\* fields the payload lacks keep their values
UnmarshalSpec(spec, payload) ==
    [k \in DOMAIN spec \cup DOMAIN payload |->
        IF k \in DOMAIN payload THEN payload[k] ELSE spec[k]]

\* newName, exists := metadataMap["name"]; exists && newName != existing.Name  (or namespace)
ChangesImmutableField(existing, data) ==
    /\ ~IsNil(data.metadata)
    /\ LET metadataMap == Deref(data.metadata) IN
       \/ ~IsNil(metadataMap.name) /\ Deref(metadataMap.name) # existing.Name
       \/ ~IsNil(metadataMap.namespace) /\ Deref(metadataMap.namespace) # existing.Namespace

\* if spec, ok := data["spec"]; ok { unmarshal it into existing.Spec }
WithSpec(existing, data) ==
    IF IsNil(data.spec) THEN existing
    ELSE [existing EXCEPT !.Spec = UnmarshalSpec(existing.Spec, Deref(data.spec))]

\* existing.Labels, existing.Annotations from the payload's metadata, when present
WithLabelsAndAnnotations(existing, data) ==
    IF IsNil(data.metadata) THEN existing
    ELSE LET metadataMap == Deref(data.metadata) IN
         [existing EXCEPT
             !.Labels = IF IsNil(metadataMap.labels) THEN existing.Labels
                        ELSE Deref(metadataMap.labels),
             !.Annotations = IF IsNil(metadataMap.annotations) THEN existing.Annotations
                             ELSE Deref(metadataMap.annotations)]

\* UpdateGateway without its check of the immutable fields
UpdateGatewayUnchecked(existing, data) ==
    [err |-> FALSE, object |-> WithLabelsAndAnnotations(WithSpec(existing, data), data)]

\* UpdateGateway up to its Update call: the error, or the object to send
UpdateGateway(existing, data) ==
    IF ChangesImmutableField(existing, data)
    THEN [err |-> TRUE, object |-> existing]
    ELSE [err |-> FALSE, object |-> WithLabelsAndAnnotations(WithSpec(existing, data), data)]

\* UpdateHTTPRoute, UpdateGatewayClass, UpdateReferenceGrant, UpdateService up to
\* their Update call: only the spec is taken from the payload
UpdateTyped(existing, data) ==
    [err |-> FALSE, object |-> WithSpec(existing, data)]

\* UpdateDNSRecord up to its Update call: unstructured.SetNestedField replaces the spec
UpdateDNSRecord(existing, data) ==
    [err |-> FALSE,
     object |-> IF IsNil(data.spec) THEN existing
                ELSE [existing EXCEPT !.Spec = Deref(data.spec)]]

\* the switch of UpdateResource
ClientUpdate(type, existing, data) ==
    CASE type = "gateway" -> UpdateGateway(existing, data)
      [] type = "dnsrecord" -> UpdateDNSRecord(existing, data)
      [] OTHER -> UpdateTyped(existing, data)

\* GetGateway, GetHTTPRoute, ...: the stored object of that name (a GatewayClass has
\* no namespace)
Found(type, namespace, name) ==
    /\ stored[type].Name = name
    /\ type = "gatewayclass" \/ stored[type].Namespace = namespace

MaxUpdates == 1

\* the request bodies: invalid JSON (Nil), or an object with optional metadata and spec
MetadataMaps ==
    [name : {Nil, Ptr("r1"), Ptr("r2")}, namespace : {Nil, Ptr("ns1"), Ptr("ns2")},
     labels : {Nil, Ptr("l1")}, annotations : {Nil, Ptr("a1")}]

Bodies ==
    [metadata : {Nil} \cup {Ptr(m) : m \in MetadataMaps},
     spec : {Nil, Ptr([f |-> "v1"]), Ptr([f |-> "v1", g |-> "v1"])}]

\* UpdateResource: PUT /resources/:type/:name?namespace=...; `accepted` is whether the
\* API server accepts the Update call
UpdateResource ==
    /\ updates < MaxUpdates
    /\ updates' = updates + 1
    /\ \E type \in ResourceTypes \cup {"pod"}, name \in {"r1", "r2"},
          body \in {Nil} \cup {Ptr(d) : d \in Bodies}, accepted \in BOOLEAN :
          /\ request' = [type |-> type, name |-> name, namespace |-> "ns1", body |-> body]
          /\ IF IsNil(body) \/ type \notin ResourceTypes
             THEN /\ response' = 400
                  /\ UNCHANGED <<stored, updateCalls>>
             ELSE IF ~Found(type, "ns1", name)
             THEN /\ response' = 500
                  /\ UNCHANGED <<stored, updateCalls>>
             ELSE LET result == ClientUpdate(type, stored[type], Deref(body)) IN
                  IF result.err
                  THEN /\ response' = 500
                       /\ UNCHANGED <<stored, updateCalls>>
                  ELSE /\ updateCalls' = updateCalls + 1
                       /\ IF accepted
                          THEN /\ stored' = [stored EXCEPT ![type] = result.object]
                               /\ response' = 200
                          ELSE /\ stored' = stored
                               /\ response' = 500
    /\ UNCHANGED <<hostVars, buildVars, cluster, failing, other, wsVars, status>>

-----------------------------------------------------------------------------
(* HandleWebSocket *)

MaxTicks == 2

\* conn, err := upgrader.Upgrade(...); if err != nil { return }; defer conn.Close()
Upgrade ==
    /\ conn = "none"
    /\ pc = "idle"
    /\ \E upgraded \in BOOLEAN : conn' = IF upgraded THEN "open" ELSE "failed"
    /\ UNCHANGED <<hostVars, buildVars, cluster, failing, other, updateVars, status,
                   ticks, fetches, writes, failedWrites, sent>>

\* case <-ticker.C: fetchAllResources; on an error `continue`, else buildGraph(resources)
Tick ==
    /\ conn = "open"
    /\ pc = "idle"
    /\ ticks < MaxTicks
    /\ ticks' = ticks + 1
    /\ fetches' = fetches + 1
    /\ LET fetched == fetchAllResources(cluster, failing) IN
       IF ~IsNil(fetched.err)
       THEN UNCHANGED <<resources, pc, idx, sub, graphVars, nodeMap, nodeIndex,
                        zoneVars, zones, colorIndex, builds>>
       ELSE /\ resources' = fetched.collection
            /\ nodes' = <<>>
            /\ links' = <<>>
            /\ dnsZones' = <<>>
            /\ nodeMap' = EmptyMap
            /\ nodeIndex' = 0
            /\ dnsZoneMap' = EmptyMap
            /\ nodeZoneMap' = EmptyMap
            /\ nodePrimaryZone' = EmptyMap
            /\ dnsRecordHostnames' = EmptyMap
            /\ zones' = <<>>
            /\ colorIndex' = 0
            /\ idx' = 1
            /\ sub' = 0
            /\ builds' = builds + 1
            /\ pc' = "gatewayClasses"
    /\ UNCHANGED <<hostVars, cluster, failing, other, updateVars, status, returned,
                   conn, writes, failedWrites, sent>>

\* WriteJSON with a failed write only logged: the loop goes on to the next tick
WriteJSONKeepsGoing ==
    /\ conn = "open"
    /\ pc = "return"
    /\ writes' = writes + 1
    /\ returned' = <<Graph>>
    /\ pc' = "idle"
    /\ \E written \in BOOLEAN :
          IF written
          THEN /\ sent' = Append(sent, Graph)
               /\ UNCHANGED <<conn, failedWrites>>
          ELSE /\ failedWrites' = failedWrites + 1
               /\ UNCHANGED <<conn, sent>>
    /\ UNCHANGED <<hostVars, cluster, failing, other, updateVars, status, ticks, fetches,
                   resources, idx, sub, graphVars, nodeMap,
                   nodeIndex, zoneVars, zones, colorIndex, builds>>

\* graph := h.buildGraph(resources); if err := conn.WriteJSON(graph); err != nil { return }
\* (the deferred conn.Close() runs on that return)
WriteJSON ==
    /\ conn = "open"
    /\ pc = "return"
    /\ writes' = writes + 1
    /\ returned' = <<Graph>>
    /\ pc' = "idle"
    /\ \E written \in BOOLEAN :
          IF written
          THEN /\ sent' = Append(sent, Graph)
               /\ UNCHANGED <<conn, failedWrites>>
          ELSE /\ failedWrites' = failedWrites + 1
               /\ conn' = "closed"
               /\ UNCHANGED sent
    /\ UNCHANGED <<hostVars, cluster, failing, other, updateVars, status, ticks, fetches,
                   resources, idx, sub, graphVars, nodeMap,
                   nodeIndex, zoneVars, zones, colorIndex, builds>>

-----------------------------------------------------------------------------
(* The resource collections the builds run on *)

MaxList == 2

RECURSIVE SeqsUpTo(_, _)
SeqsUpTo(set, n) ==
    IF n = 0 THEN {<<>>}
    ELSE LET shorter == SeqsUpTo(set, n - 1) IN
         shorter \cup {Append(s, x) : s \in {t \in shorter : Len(t) = n - 1}, x \in set}

\* Kubernetes gives every object its own UID: the k-th object of a kind gets <kind><k>
WithUIDs(kind, shapes) ==
    [k \in 1..Len(shapes) |-> [UID |-> S(kind) \o Itoa(k)] @@ shapes[k]]

GatewayClassShape(name) == [Name |-> S(name)]

ListenerShape(name, host) ==
    [Name |-> name, Hostname |-> host, Port |-> 443, Protocol |-> "HTTPS", TLS |-> Nil]

GatewayShape(name, ns, class, listeners) ==
    [Name |-> S(name), Namespace |-> S(ns),
     Spec |-> [GatewayClassName |-> class, Listeners |-> listeners]]

ParentRef(name, ns) == [Name |-> name, Namespace |-> ns]

BackendRef(name, ns) == [Name |-> name, Namespace |-> ns]

Rule(backendRefs) == [BackendRefs |-> backendRefs]

RouteShape(name, ns, hostnames, parentRefs, rules) ==
    [Name |-> S(name), Namespace |-> S(ns),
     Spec |-> [Hostnames |-> hostnames, ParentRefs |-> parentRefs, Rules |-> rules]]

GrantShape(name, ns) == [Name |-> S(name), Namespace |-> S(ns)]

DNSRecordShape(name, ns, dnsName, label) ==
    [Name |-> S(name), Namespace |-> S(ns), DNSName |-> dnsName, GatewayNameLabel |-> label]

ServiceShape(name, ns) == [Name |-> S(name), Namespace |-> S(ns)]

Collection(gcs, gws, routes, grants, dns, svcs) ==
    [GatewayClasses |-> WithUIDs("gc", gcs),
     Gateways |-> WithUIDs("gw", gws),
     HTTPRoutes |-> WithUIDs("route", routes),
     ReferenceGrants |-> WithUIDs("grant", grants),
     DNSRecords |-> WithUIDs("dns", dns),
     Services |-> WithUIDs("svc", svcs)]

HostApi == Str(<<"api", "example", "com">>)
HostWww == Str(<<"www", "example", "com">>)
HostWild == <<Star, Dot>> \o Str(<<"example", "com">>)
HostOther == Str(<<"api", "other", "org">>)
HostOpenShift == Str(<<"gwapi", "apps", "cl", "region", "example", "com">>)
HostAppsFirst == Str(<<"apps", "gwapi", "apps", "cl", "example", "com">>)

Namespaces == {"ns1", "ns2"}

\* the parts every collection below shares unless it varies them
BaseClasses == <<GatewayClassShape("gc1")>>
BaseGateways == <<GatewayShape("gw1", "ns1", S("gc1"), <<ListenerShape(S("http"), Nil)>>)>>
BaseRoutes == <<RouteShape("route1", "ns1", <<>>, <<ParentRef(S("gw1"), Nil)>>,
                           <<Rule(<<BackendRef(S("svc1"), Nil)>>)>>)>>
BaseGrants == <<GrantShape("grant1", "ns1")>>
BaseServices == <<ServiceShape("svc1", "ns1")>>

\* gateway classes and the class names gateways ask for
GatewayClassLists == SeqsUpTo({GatewayClassShape(n) : n \in {"gc1", "gc2"}}, MaxList)

ClassNameLists == SeqsUpTo({S("gc1"), S("gc2"), Empty}, MaxList)

ClassCollections ==
    {Collection(gcs, [k \in 1..Len(cs) |-> GatewayShape("gw1", "ns1", cs[k], <<>>)],
                BaseRoutes, BaseGrants, <<>>, BaseServices) :
        gcs \in GatewayClassLists, cs \in ClassNameLists}

\* gateways of either name in either namespace, and the parent references of a route
ParentRefLists ==
    SeqsUpTo({ParentRef(n, ns) : n \in {Empty, S("gw1")}, ns \in {Nil, Ptr(S("ns2"))}}, MaxList)

ParentRefCollections ==
    {Collection(BaseClasses,
                <<GatewayShape("gw1", "ns1", S("gc1"), <<>>),
                  GatewayShape("gw2", "ns1", S("gc1"), <<>>),
                  GatewayShape("gw1", "ns2", S("gc1"), <<>>)>>,
                <<RouteShape("route1", rns, <<>>, prefs, <<>>)>>, <<>>, <<>>, <<>>) :
        rns \in Namespaces, prefs \in ParentRefLists}

\* services and the backend references of a route: one rule per reference, and a
\* last rule that holds all of them again
BackendRefLists ==
    SeqsUpTo({BackendRef(S("svc1"), ns) : ns \in {Nil, Ptr(S("ns2"))}}, MaxList)

ServiceLists == SeqsUpTo({ServiceShape("svc1", ns) : ns \in Namespaces}, MaxList)

BackendRefCollections ==
    {Collection(BaseClasses, BaseGateways,
                <<RouteShape("route1", rns, <<>>, <<>>,
                             [k \in 1..Len(brefs) |-> Rule(<<brefs[k]>>)] \o <<Rule(brefs)>>)>>,
                BaseGrants, <<>>, svcs) :
        rns \in Namespaces, brefs \in BackendRefLists, svcs \in ServiceLists}

\* DNS records, the listeners of the gateway their label names
LinkListenerHosts == SeqsUpTo({Nil, Ptr(HostApi), Ptr(HostWww)}, MaxList)

DNSLinkCollections ==
    {Collection(BaseClasses,
                <<GatewayShape("gw1", "ns1", S("gc1"),
                               [k \in 1..Len(hosts) |-> ListenerShape(Empty, hosts[k])])>>,
                BaseRoutes, BaseGrants,
                <<DNSRecordShape("dns1", ns, name, label)>>, BaseServices) :
        hosts \in LinkListenerHosts,
        ns \in Namespaces,
        name \in {HostApi, HostApi \o <<Dot>>, HostWild},
        label \in {Nil, Ptr(S("gw1")), Ptr(S("gw2"))}}

DNSRecordList(names) ==
    [k \in 1..Len(names) |-> DNSRecordShape("dns", "ns1", names[k], Nil)]

\* DNS names and the hostnames of a route, for the zones
RouteDNSNameLists == SeqsUpTo({HostApi \o <<Dot>>, HostOther}, MaxList)

RouteHostLists == SeqsUpTo({HostApi, HostOther, Empty}, MaxList)

RouteZoneCollections ==
    {Collection(BaseClasses, BaseGateways,
                <<RouteShape("route1", "ns1", rhosts, <<>>, <<>>)>>, <<>>,
                DNSRecordList(names), <<>>) :
        names \in RouteDNSNameLists, rhosts \in RouteHostLists}

\* DNS names and the hostnames of a gateway's listeners, for the zones
ListenerDNSNameLists == SeqsUpTo({HostApi, HostOther}, MaxList)

ZoneListenerHosts == SeqsUpTo({Nil, Ptr(HostApi), Ptr(HostWild)}, MaxList)

ListenerZoneCollections ==
    {Collection(BaseClasses,
                <<GatewayShape("gw1", "ns1", S("gc1"),
                               [k \in 1..Len(lhosts) |-> ListenerShape(S("l"), lhosts[k])])>>,
                BaseRoutes, <<>>, DNSRecordList(names), BaseServices) :
        names \in ListenerDNSNameLists, lhosts \in ZoneListenerHosts}

\* OpenShift-apps-style hostnames of a route and of a listener, for the zones
OpenShiftZoneCollections ==
    {Collection(BaseClasses,
                <<GatewayShape("gw1", "ns1", S("gc1"), <<ListenerShape(S("l"), lhost)>>)>>,
                <<RouteShape("route1", "ns1", <<rhost>>, <<>>, <<>>)>>, <<>>, <<>>, <<>>) :
        lhost \in {Nil, Ptr(<<Star, Dot>> \o HostOpenShift)},
        rhost \in {HostAppsFirst, HostOpenShift}}

\* the collection a build may be handed
IsCollection(c) ==
    \/ c \in ClassCollections
    \/ c \in ParentRefCollections
    \/ c \in BackendRefCollections
    \/ c \in DNSLinkCollections
    \/ c \in RouteZoneCollections
    \/ c \in ListenerZoneCollections
    \/ c \in OpenShiftZoneCollections

HostIdle ==
    /\ hostname = Empty
    /\ hpc = "idle"
    /\ hzones = <<>>
    /\ hbasic = Empty

BuildIdle ==
    /\ pc = "idle"
    /\ idx = 1
    /\ sub = 0
    /\ nodes = <<>>
    /\ links = <<>>
    /\ dnsZones = <<>>
    /\ nodeMap = EmptyMap
    /\ nodeIndex = 0
    /\ dnsZoneMap = EmptyMap
    /\ nodeZoneMap = EmptyMap
    /\ nodePrimaryZone = EmptyMap
    /\ dnsRecordHostnames = EmptyMap
    /\ zones = <<>>
    /\ colorIndex = 0
    /\ builds = 0
    /\ returned = <<>>

\* the stored objects before any UpdateResource request
UpdateIdle ==
    /\ stored = [t \in ResourceTypes |-> StoredObject]
    /\ updateCalls = 0
    /\ updates = 0
    /\ request = NoRequest
    /\ response = 0

\* no websocket connection
WSIdle ==
    /\ conn = "none"
    /\ ticks = 0
    /\ fetches = 0
    /\ writes = 0
    /\ failedWrites = 0
    /\ sent = <<>>

NoResources == Collection(<<>>, <<>>, <<>>, <<>>, <<>>, <<>>)

\* every list call succeeds
Init ==
    /\ IsCollection(cluster)
    /\ failing = {}
    /\ other = IdleFrame
    /\ UpdateIdle
    /\ WSIdle
    /\ resources = NoResources
    /\ status = 0
    /\ BuildIdle
    /\ HostIdle

Next ==
    \/ GetGraph
    \/ AddGatewayClass
    \/ AddGateway
    \/ AddListener
    \/ LinkGatewayClass
    \/ AddHTTPRoute
    \/ AddReferenceGrant
    \/ AddDNSRecord
    \/ AddService
    \/ ZoneDNSRecord
    \/ ZoneRouteHostname
    \/ ZoneListener
    \/ UpdateNodes
    \/ SortZones
    \/ CreateZone
    \/ LinkBackendRefs
    \/ Return

Spec == Init /\ [][Next]_vars

\* a collection with a DNSRecord, a route and listeners whose hostnames give zones
ZonedCluster(dnsName, rhost, lhost) ==
    Collection(BaseClasses,
               <<GatewayShape("gw1", "ns1", S("gc1"), <<ListenerShape(S("l"), lhost)>>)>>,
               <<RouteShape("route1", "ns1", <<rhost>>, <<ParentRef(S("gw1"), Nil)>>,
                            <<Rule(<<BackendRef(S("svc1"), Nil)>>)>>)>>,
               BaseGrants,
               <<DNSRecordShape("dns1", "ns1", dnsName, Ptr(S("gw1")))>>,
               BaseServices)

\* a request served alone, then a request and a websocket tick served side by side
InitConc ==
    /\ cluster \in {ZonedCluster(HostApi, HostApi, Ptr(HostWww)),
                    ZonedCluster(HostApi, HostOther, Ptr(HostWild))}
    /\ failing = {}
    /\ other = IdleFrame
    /\ UpdateIdle
    /\ WSIdle
    /\ resources = NoResources
    /\ status = 0
    /\ BuildIdle
    /\ HostIdle

NextConc == Next \/ Switch

SpecConc == InitConc /\ [][NextConc]_vars

\* a cluster with resources of every category
FullCluster ==
    Collection(BaseClasses, BaseGateways, BaseRoutes, BaseGrants,
               <<DNSRecordShape("dns1", "ns1", HostApi, Ptr(S("gw1")))>>, BaseServices)

\* any subset of the list calls fails
InitFetch ==
    /\ cluster \in {FullCluster, NoResources}
    /\ failing \in SUBSET Categories
    /\ other = IdleFrame
    /\ UpdateIdle
    /\ WSIdle
    /\ resources = NoResources
    /\ status = 0
    /\ BuildIdle
    /\ HostIdle

SpecFetch == InitFetch /\ [][Next]_vars

\* a websocket client; some list calls may fail
InitWS ==
    /\ cluster \in {FullCluster, ZonedCluster(HostApi, HostApi, Ptr(HostWww))}
    /\ failing \in {{}, {"Services"}}
    /\ other = IdleFrame
    /\ UpdateIdle
    /\ WSIdle
    /\ resources = NoResources
    /\ status = 0
    /\ BuildIdle
    /\ HostIdle

\* the steps of buildGraph
BuildStep ==
    \/ AddGatewayClass
    \/ AddGateway
    \/ AddListener
    \/ LinkGatewayClass
    \/ AddHTTPRoute
    \/ AddReferenceGrant
    \/ AddDNSRecord
    \/ AddService
    \/ ZoneDNSRecord
    \/ ZoneRouteHostname
    \/ ZoneListener
    \/ UpdateNodes
    \/ SortZones
    \/ CreateZone
    \/ LinkBackendRefs

NextWS == Upgrade \/ Tick \/ BuildStep \/ WriteJSON

SpecWS == InitWS /\ [][NextWS]_vars

\* requests to update the stored objects
InitUpdate ==
    /\ cluster = NoResources
    /\ failing = {}
    /\ other = IdleFrame
    /\ UpdateIdle
    /\ WSIdle
    /\ resources = NoResources
    /\ status = 0
    /\ BuildIdle
    /\ HostIdle

SpecUpdate == InitUpdate /\ [][UpdateResource]_vars

-----------------------------------------------------------------------------
(* SpecHost: the extractor applied to every bounded hostname *)

MaxLabels == 6

HostLabels == {"apps", "svc", "cluster", "local", "com"}

\* the hostnames named in the specification's examples
ExampleApi == Str(<<"api", "example", "com">>)
ExampleOpenShift == Str(<<"a", "b", "c", "apps", "cl", "region", "example", "com">>)
ExampleSvc == Str(<<"service", "namespace", "svc", "cluster", "local">>)

\* every hostname of at most MaxLabels labels, with and without a leading "*.",
\* and the three examples
IsHostname(h) ==
    \/ \E n \in 0..MaxLabels : \E labels \in [1..n -> HostLabels] : \E wild \in BOOLEAN :
          h = (IF wild THEN <<Star, Dot>> ELSE Empty)
                \o Join([k \in 1..n |-> Label(labels[k])])
    \/ h \in {ExampleApi, ExampleOpenShift, ExampleSvc}

InitHost ==
    /\ IsHostname(hostname)
    /\ hpc = "input"
    /\ hzones = <<>>
    /\ hbasic = Empty
    /\ resources = NoResources
    /\ cluster = NoResources
    /\ failing = {}
    /\ other = IdleFrame
    /\ UpdateIdle
    /\ WSIdle
    /\ status = 0
    /\ BuildIdle

CallExtractHierarchicalZones ==
    /\ hpc = "input"
    /\ hzones' = extractHierarchicalZones(hostname)
    /\ hpc' = "zones"
    /\ UNCHANGED <<hostname, hbasic, buildVars, envVars, status>>

CallExtractDNSZone ==
    /\ hpc = "zones"
    /\ hbasic' = extractDNSZone(hostname)
    /\ hpc' = "basic"
    /\ UNCHANGED <<hostname, hzones, buildVars, envVars, status>>

NextHost == CallExtractHierarchicalZones \/ CallExtractDNSZone

SpecHost == InitHost /\ [][NextHost]_vars

-----------------------------------------------------------------------------
(* Properties of the extractor, under SpecHost *)

HostParts == Split(TrimWildcard(hostname))

NoDuplicates(s) == \A i, j \in 1..Len(s) : s[i] = s[j] => i = j

IsSuffixZone(z, parts) == \E i \in 0..(Len(parts) - 1) : z = JoinFrom(parts, i)

\* the hostname is not OpenShift-apps style (the extractor takes the regular-domain branch)
GenericStyle == ~isOpenShiftStyleDomain(HostParts)

\* C2: for every hostname of at least 2 labels (after a leading "*." is stripped),
\* extractHierarchicalZones returns a non-empty list without duplicates, each entry
\* the dot-join of a suffix of the hostname's labels.
C2_ZonesAreDistinctSuffixes ==
    (hpc # "input" /\ Len(HostParts) >= 2) =>
        /\ Len(hzones) > 0
        /\ NoDuplicates(hzones)
        /\ \A k \in 1..Len(hzones) : IsSuffixZone(hzones[k], HostParts)

\* C2 witness: an OpenShift-style wildcard hostname whose zones have been extracted
C2_Witness ==
    /\ hpc = "zones"
    /\ HasWildcardPrefix(hostname)
    /\ isOpenShiftStyleDomain(HostParts)
    /\ FirstAppsIndex(HostParts) = 0
    /\ Len(hzones) = 1

\* C3: for a generic-style hostname of 3 or more labels the full hostname is never
\* one of the zones (the longest zone drops exactly the leftmost label), and
\* extractHierarchicalZones("api.example.com") is exactly ["example.com"].
C3_FullHostnameNeverAZone ==
    (hpc # "input" /\ GenericStyle /\ Len(HostParts) >= 3) =>
        /\ TrimWildcard(hostname) \notin Range(hzones)
        /\ \A k \in 1..Len(hzones) : Depth(hzones[k]) <= Len(HostParts) - 1
        /\ hostname = ExampleApi => hzones = <<Str(<<"example", "com">>)>>

OpenShiftZonesClaimed ==
    <<Str(<<"b", "c", "apps", "cl", "region", "example", "com">>),
      Str(<<"c", "apps", "cl", "region", "example", "com">>),
      Str(<<"apps", "cl", "region", "example", "com">>),
      Str(<<"cl", "region", "example", "com">>),
      Str(<<"region", "example", "com">>),
      Str(<<"example", "com">>)>>

\* s holds the entries of want, in that order (not necessarily adjacent)
RECURSIVE ContainsInOrder(_, _)
ContainsInOrder(s, want) ==
    IF want = <<>> THEN TRUE
    ELSE IF s = <<>> THEN FALSE
    ELSE IF Head(s) = Head(want) THEN ContainsInOrder(Tail(s), Tail(want))
    ELSE ContainsInOrder(Tail(s), want)

\* C4 as stated: the zones of a.b.c.apps.cl.region.example.com contain, in this order,
\* b.c.apps.cl.region.example.com, c.apps...., apps...., cl.region.example.com,
\* region.example.com, example.com.
C4_Original ==
    (hpc # "input" /\ hostname = ExampleOpenShift) =>
        ContainsInOrder(hzones, OpenShiftZonesClaimed)

\* C4 amended: the zones of a.b.c.apps.cl.region.example.com are exactly, in this order,
\* c.apps.cl.region.example.com, apps.cl.region.example.com, cl.region.example.com,
\* region.example.com, example.com: the list starts at the label just before `apps`,
\* and b.c.apps.cl.region.example.com is not a zone.
C4_OpenShiftExample ==
    (hpc # "input" /\ hostname = ExampleOpenShift) =>
        hzones = Tail(OpenShiftZonesClaimed)

\* C4 witness: the example hostname has gone through the extractor
C4_Witness == hpc = "zones" /\ hostname = ExampleOpenShift /\ Len(hzones) = 5

\* C15: for every hostname, of any domain style, the zones are ordered from most to
\* least specific: each entry has strictly more labels than the entry after it.
C15_MostSpecificFirst ==
    hpc # "input" =>
        \A k \in 1..(Len(hzones) - 1) : Depth(hzones[k]) > Depth(hzones[k + 1])

-----------------------------------------------------------------------------
(* Properties of buildGraph, under Spec *)

\* a build has returned: the graph variables hold the snapshot it returned
Built == pc = "idle" /\ builds > 0

\* the 0-based position in graph.Nodes of the node with this ID
NodeIndexOf(id) == (CHOOSE k \in 1..Len(nodes) : nodes[k].ID = id) - 1

NodeOf(id) == nodes[NodeIndexOf(id) + 1]

DNSNameOf(dns) == TrimTrailingDot(dns.DNSName)

\* the names of the emitted zones that list this node
MemberZones(id) ==
    {dnsZones[k].Name : k \in {j \in 1..Len(dnsZones) : id \in Range(dnsZones[j].Nodes)}}

\* the hostnames of the route that have at least one zone, in list order
ZonedHostnames(route) ==
    SelectSeq(route.Spec.Hostnames, LAMBDA h : extractHierarchicalZones(h) # <<>>)

SameZones(route, dns) ==
    /\ NodeOf(route.UID).DNSZone = NodeOf(dns.UID).DNSZone
    /\ MemberZones(route.UID) = MemberZones(dns.UID)

\* C1: two builds on the same unchanged collection return identical Nodes, Links and
\* DNSZones, zone order and zone colors included.
C1_Deterministic ==
    (pc = "return" /\ returned # <<>>) => Graph = returned[1]

\* C5 as stated: a route that declares, at any position of its hostname list, a hostname
\* equal to a DNSRecord's dnsName has that record's primary zone and zone memberships.
C5_Original ==
    Built =>
        \A r \in 1..Len(resources.HTTPRoutes), d \in 1..Len(resources.DNSRecords) :
            LET route == resources.HTTPRoutes[r]
                dns == resources.DNSRecords[d]
            IN (DNSNameOf(dns) # Empty /\ DNSNameOf(dns) \in Range(route.Spec.Hostnames))
                   => SameZones(route, dns)

\* C5 amended: a route has the primary zone, the zone memberships and the zone list of
\* the DNSRecord whose dnsName (trailing dot stripped) equals the first hostname of the
\* route, in list order, that has at least one zone; later hostnames are not looked at.
C5_FirstHostnameInherits ==
    Built =>
        \A r \in 1..Len(resources.HTTPRoutes), d \in 1..Len(resources.DNSRecords) :
            LET route == resources.HTTPRoutes[r]
                dns == resources.DNSRecords[d]
                hosts == ZonedHostnames(route)
            IN (Len(hosts) > 0 /\ hosts[1] = DNSNameOf(dns))
                   => /\ SameZones(route, dns)
                      /\ Slice(nodeZoneMap, route.UID) = Slice(nodeZoneMap, dns.UID)

\* C5 witness: a returned snapshot for a route whose first hostname is empty and whose
\* second is the name of a DNSRecord written with a trailing dot; the route has a
\* primary zone
C5_Witness ==
    /\ Built
    /\ \E r \in 1..Len(resources.HTTPRoutes), d \in 1..Len(resources.DNSRecords) :
          LET route == resources.HTTPRoutes[r]
              dns == resources.DNSRecords[d]
          IN /\ Len(route.Spec.Hostnames) >= 2
             /\ route.Spec.Hostnames[1] = Empty
             /\ route.Spec.Hostnames[2] = DNSNameOf(dns)
             /\ dns.DNSName # DNSNameOf(dns)
             /\ NodeOf(route.UID).DNSZone # Empty

EmittedZones == {dnsZones[k].Name : k \in 1..Len(dnsZones)}

\* C6: a zone is omitted only if an emitted zone has strictly more labels and the same
\* member set, and no two emitted zones of different depth have the same member set.
C6_Pruning ==
    Built =>
        /\ \A z \in (DOMAIN dnsZoneMap) \ EmittedZones :
              \E k \in 1..Len(dnsZones) :
                  /\ Depth(dnsZones[k].Name) > Depth(z)
                  /\ Range(dnsZones[k].Nodes) = Range(dnsZoneMap[z])
        /\ \A j, k \in 1..Len(dnsZones) :
              Depth(dnsZones[j].Name) # Depth(dnsZones[k].Name)
                  => Range(dnsZones[j].Nodes) # Range(dnsZones[k].Nodes)

\* C6 witness: a build that dropped one zone and kept a zone of depth 2 beside a deeper one
C6_Witness ==
    /\ Built
    /\ (DOMAIN dnsZoneMap) \ EmittedZones # {}
    /\ \E j, k \in 1..Len(dnsZones) :
          Depth(dnsZones[j].Name) > Depth(dnsZones[k].Name)

ValidIndex(i, ns) == i >= 0 /\ i < Len(ns)

\* C7: in every state of a build, and in the snapshot it returns, both indices of every
\* link are positions of the node list as it stands (the endpoints are appended first).
C7_LinksValid ==
    /\ \A k \in 1..Len(links) :
          ValidIndex(links[k].Source, nodes) /\ ValidIndex(links[k].Target, nodes)
    /\ \A r \in 1..Len(returned) : \A k \in 1..Len(returned[r].Links) :
          /\ ValidIndex(returned[r].Links[k].Source, returned[r].Nodes)
          /\ ValidIndex(returned[r].Links[k].Target, returned[r].Nodes)

LinkTypes == {links[k].Type : k \in 1..Len(links)}

\* C7 witness: a returned snapshot with links of all five relations
C7_Witness ==
    /\ Built
    /\ LinkTypes = {"gatewayClassRef", "listener", "parentRef", "dnsRecord", "backendRef"}

AllUIDs(res) ==
    Concat(<<[k \in 1..Len(res.GatewayClasses) |-> res.GatewayClasses[k].UID],
             [k \in 1..Len(res.Gateways) |-> res.Gateways[k].UID],
             [k \in 1..Len(res.HTTPRoutes) |-> res.HTTPRoutes[k].UID],
             [k \in 1..Len(res.ReferenceGrants) |-> res.ReferenceGrants[k].UID],
             [k \in 1..Len(res.DNSRecords) |-> res.DNSRecords[k].UID],
             [k \in 1..Len(res.Services) |-> res.Services[k].UID]>>)

DistinctUIDs(res) == NoDuplicates(AllUIDs(res))

\* C8: with pairwise distinct input UIDs no two nodes have the same ID, in every state
\* of a build and in the snapshot it returns, synthesized Listener nodes included.
\* (metadata.uid is assigned by the API server: no UID contains the text "-listener-".)
C8_UniqueNodeIDs ==
    DistinctUIDs(resources) =>
        /\ NoDuplicates([k \in 1..Len(nodes) |-> nodes[k].ID])
        /\ \A r \in 1..Len(returned) :
              NoDuplicates([k \in 1..Len(returned[r].Nodes) |-> returned[r].Nodes[k].ID])

\* C8 witness: a returned snapshot holding two Listener nodes of one gateway
C8_Witness ==
    /\ Built
    /\ \E j, k \in 1..Len(nodes) :
          /\ j # k
          /\ nodes[j].Type = "Listener" /\ nodes[k].Type = "Listener"
          /\ nodes[j].ParentID = nodes[k].ParentID

\* C9: within one build, a primary zone once assigned to a node ID is never removed
\* nor changed to another value by a later step.
C9_PrimaryZoneWriteOnce ==
    [][pc # "idle" =>
          \A id \in DOMAIN nodePrimaryZone :
              /\ id \in DOMAIN nodePrimaryZone'
              /\ nodePrimaryZone'[id] = nodePrimaryZone[id]]_vars

\* C9 witness: the zone passes are over for a route whose first hostname has no
\* DNSRecord and whose second has one with another primary zone; the route kept the
\* primary zone of its first hostname
C9_Witness ==
    /\ pc = "updateNodes"
    /\ \E r \in 1..Len(resources.HTTPRoutes) :
          LET route == resources.HTTPRoutes[r] IN
          /\ Len(route.Spec.Hostnames) >= 2
          /\ route.Spec.Hostnames[1] # Empty
          /\ ~Has(dnsRecordHostnames, route.Spec.Hostnames[1])
          /\ Has(dnsRecordHostnames, route.Spec.Hostnames[2])
          /\ Has(nodePrimaryZone, route.UID)
          /\ nodePrimaryZone[route.UID]
                # nodePrimaryZone[dnsRecordHostnames[route.Spec.Hostnames[2]]]

ClassesNamed(name) ==
    {c \in 1..Len(resources.GatewayClasses) : resources.GatewayClasses[c].Name = name}

ClassRefsTo(gw) ==
    {k \in 1..Len(links) :
        links[k].Type = "gatewayClassRef" /\ links[k].Target = NodeIndexOf(gw.UID)}

Min(set) == CHOOSE x \in set : \A y \in set : x <= y

\* the links C10 is about, in a returned snapshot
C10_ClassRefLinks ==
    Built =>
          \A g \in 1..Len(resources.Gateways) :
              LET gw == resources.Gateways[g]
                  named == ClassesNamed(gw.Spec.GatewayClassName)
              IN IF named = {}
                 THEN ClassRefsTo(gw) = {}
                 ELSE /\ Cardinality(ClassRefsTo(gw)) = 1
                      /\ \A k \in ClassRefsTo(gw) :
                            links[k].Source =
                                NodeIndexOf(resources.GatewayClasses[Min(named)].UID)

\* C10: in the returned snapshot each Gateway has exactly one gatewayClassRef link, from
\* the first GatewayClass in list order named spec.gatewayClassName, and none when no
\* GatewayClass has that name; the class lookup of a gateway, matching or not, adds at
\* most one link, no node, and hands the build on to the next gateway.
C10_ClassRef ==
    /\ []C10_ClassRefLinks
    /\ [][pc = "classRef" =>
             /\ pc' = "gateways" /\ idx' = idx + 1
             /\ nodes' = nodes
             /\ Len(links') <= Len(links) + 1]_vars

\* C10 witness: a returned snapshot for a gateway whose class name two GatewayClasses
\* carry, beside a gateway whose class name none carries
C10_Witness ==
    /\ Built
    /\ \E g, h \in 1..Len(resources.Gateways) :
          /\ Cardinality(ClassesNamed(resources.Gateways[g].Spec.GatewayClassName)) = 2
          /\ ClassesNamed(resources.Gateways[h].Spec.GatewayClassName) = {}
          /\ resources.Gateways[h].Spec.GatewayClassName # Empty

\* the links of one relation between two nodes, as positions of graph.Links
LinksBetween(type, sourceID, targetID) ==
    {k \in 1..Len(links) :
        /\ links[k].Type = type
        /\ links[k].Source = NodeIndexOf(sourceID)
        /\ links[k].Target = NodeIndexOf(targetID)}

\* the parent references of the route that select the gateway
SelectingParentRefs(route, gw) ==
    {p \in 1..Len(route.Spec.ParentRefs) :
        LET ref == route.Spec.ParentRefs[p] IN
        /\ ref.Name \in {Empty, gw.Name}
        /\ ref.Namespace \in {Nil, Ptr(route.Namespace), Ptr(gw.Namespace)}}

\* C11: in the returned snapshot the parentRef links from a Gateway to an HTTPRoute are
\* one per parent reference of the route with (name empty or the gateway's name) and
\* (namespace unset, the route's namespace or the gateway's namespace), and no other;
\* every parentRef link runs from a Gateway node to an HTTPRoute node.
C11_ParentRefLinks ==
    Built =>
        /\ \A r \in 1..Len(resources.HTTPRoutes), g \in 1..Len(resources.Gateways) :
              LET route == resources.HTTPRoutes[r]
                  gw == resources.Gateways[g]
              IN Cardinality(LinksBetween("parentRef", gw.UID, route.UID))
                     = Cardinality(SelectingParentRefs(route, gw))
        /\ \A k \in 1..Len(links) :
              links[k].Type = "parentRef" =>
                  /\ nodes[links[k].Source + 1].Type = "Gateway"
                  /\ nodes[links[k].Target + 1].Type = "HTTPRoute"

\* C11 witness: a returned snapshot for a route with a parent reference of empty name
\* and a namespace that is the route's own, linked to a gateway of another namespace,
\* and with a parent reference that does not select one of the gateways
C11_Witness ==
    /\ Built
    /\ \E r \in 1..Len(resources.HTTPRoutes), g, h \in 1..Len(resources.Gateways) :
          LET route == resources.HTTPRoutes[r]
              gw == resources.Gateways[g]
          IN /\ \E p \in SelectingParentRefs(route, gw) :
                   /\ route.Spec.ParentRefs[p].Name = Empty
                   /\ route.Spec.ParentRefs[p].Namespace = Ptr(route.Namespace)
             /\ gw.Namespace # route.Namespace
             /\ LinksBetween("parentRef", gw.UID, route.UID) # {}
             /\ SelectingParentRefs(route, resources.Gateways[h])
                    # 1..Len(route.Spec.ParentRefs)

\* C13: every zone of graph.DNSZones, while it is built and in the returned snapshot,
\* has at least one member node ID, and so has every zone name the build registers.
C13_ZonesHaveMembers ==
    /\ \A k \in 1..Len(dnsZones) : Len(dnsZones[k].Nodes) >= 1
    /\ \A z \in DOMAIN dnsZoneMap : Len(dnsZoneMap[z]) >= 1
    /\ \A r \in 1..Len(returned) : \A k \in 1..Len(returned[r].DNSZones) :
          Len(returned[r].DNSZones[k].Nodes) >= 1

\* C13 witness: a returned snapshot with zones, after a build that dropped a zone
C13_Witness ==
    /\ Built
    /\ Len(dnsZones) >= 2
    /\ (DOMAIN dnsZoneMap) \ EmittedZones # {}
    /\ returned = <<Graph>>

\* the zones whose member list, before pruning, holds the node ID
ZonesOf(id) == {z \in DOMAIN dnsZoneMap : id \in Range(dnsZoneMap[z])}

\* C16: in the returned snapshot the primary zone of a node (Node.DNSZone) is a zone the
\* node is a member of, and no zone the node is a member of has more labels.
C16_PrimaryZoneIsDeepest ==
    Built =>
        \A n \in 1..Len(nodes) :
            nodes[n].DNSZone # Empty =>
                /\ nodes[n].DNSZone \in ZonesOf(nodes[n].ID)
                /\ \A z \in ZonesOf(nodes[n].ID) : Depth(z) <= Depth(nodes[n].DNSZone)

\* the dnsRecord links that end at the record, as positions of graph.Links
DNSRecordLinksTo(dns) ==
    {k \in 1..Len(links) :
        links[k].Type = "dnsRecord" /\ links[k].Target = NodeIndexOf(dns.UID)}

\* the gateways the record's gateway-name label names in the record's own namespace
LabelledGateways(dns) ==
    {g \in 1..Len(resources.Gateways) :
        /\ ~IsNil(dns.GatewayNameLabel)
        /\ resources.Gateways[g].Name = Deref(dns.GatewayNameLabel)
        /\ resources.Gateways[g].Namespace = dns.Namespace}

\* the 0-based indices of the gateway's listeners whose hostname is the record's dnsName
MatchingListeners(gw, dns) ==
    {i \in 0..(Len(gw.Spec.Listeners) - 1) :
        gw.Spec.Listeners[i + 1].Hostname = Ptr(DNSNameOf(dns))}

\* the record has one dnsRecord link, from the node with this ID
LinkedFrom(dns, sourceID) ==
    /\ Cardinality(DNSRecordLinksTo(dns)) = 1
    /\ \A k \in DNSRecordLinksTo(dns) : links[k].Source = NodeIndexOf(sourceID)

\* C19 as stated: the link comes from the Listener when exactly one listener of the
\* labelled Gateway has the record's dnsName as hostname, and from the Gateway when no
\* listener or more than one listener has it.
C19_Original ==
    Built =>
        \A d \in 1..Len(resources.DNSRecords) :
            LET dns == resources.DNSRecords[d] IN
            LabelledGateways(dns) # {} =>
                LET gw == resources.Gateways[Min(LabelledGateways(dns))]
                    matching == MatchingListeners(gw, dns)
                IN IF Cardinality(matching) = 1
                   THEN LinkedFrom(dns, ListenerID(gw.UID, Min(matching)))
                   ELSE LinkedFrom(dns, gw.UID)

\* C19 amended: the link comes from the first Listener, in list order, of the labelled
\* Gateway whose hostname equals the record's dnsName (trailing dot stripped), also
\* when several listeners have that hostname; it comes from the Gateway only when no
\* listener has it.
C19_FirstMatchingListener ==
    Built =>
        \A d \in 1..Len(resources.DNSRecords) :
            LET dns == resources.DNSRecords[d] IN
            LabelledGateways(dns) # {} =>
                LET gw == resources.Gateways[Min(LabelledGateways(dns))]
                    matching == MatchingListeners(gw, dns)
                IN IF matching # {}
                   THEN LinkedFrom(dns, ListenerID(gw.UID, Min(matching)))
                   ELSE LinkedFrom(dns, gw.UID)

\* C19 witness: a returned snapshot for a record, written with a trailing dot, whose
\* labelled Gateway has two listeners with the record's name as hostname
C19_Witness ==
    /\ Built
    /\ \E d \in 1..Len(resources.DNSRecords) :
          LET dns == resources.DNSRecords[d] IN
          /\ LabelledGateways(dns) # {}
          /\ dns.DNSName # DNSNameOf(dns)
          /\ Cardinality(MatchingListeners(resources.Gateways[Min(LabelledGateways(dns))],
                                           dns)) = 2
          /\ DNSRecordLinksTo(dns) # {}

\* C20: in the returned snapshot a DNSRecord has at most one dnsRecord link; it has
\* none when it has no gateway-name label or the label names no Gateway of its own
\* namespace, and otherwise one whose source is such a Gateway or one of its listeners.
C20_LinkFromLabelledGateway ==
    Built =>
        \A d \in 1..Len(resources.DNSRecords) :
            LET dns == resources.DNSRecords[d] IN
            IF LabelledGateways(dns) = {}
            THEN DNSRecordLinksTo(dns) = {}
            ELSE /\ Cardinality(DNSRecordLinksTo(dns)) = 1
                 /\ \A k \in DNSRecordLinksTo(dns) :
                       LET source == nodes[links[k].Source + 1] IN
                       \E g \in LabelledGateways(dns) :
                           \/ source.ID = resources.Gateways[g].UID
                           \/ /\ source.Type = "Listener"
                              /\ source.ParentID = Ptr(resources.Gateways[g].UID)

\* C20 witness: a returned snapshot for a record whose label is the name of a Gateway
\* that exists in another namespace only: the record has no link
C20_Witness ==
    /\ Built
    /\ \E d \in 1..Len(resources.DNSRecords), g \in 1..Len(resources.Gateways) :
          LET dns == resources.DNSRecords[d] IN
          /\ dns.GatewayNameLabel = Ptr(resources.Gateways[g].Name)
          /\ dns.Namespace # resources.Gateways[g].Namespace
          /\ LabelledGateways(dns) = {}
          /\ DNSRecordLinksTo(dns) = {}

\* the backendRef occurrences of the route, as <<rule, position in the rule>>
BackendRefOccurrences(route) ==
    {<<r, b>> \in (1..Len(route.Spec.Rules)) \X (1..MaxList + 1) :
        b <= Len(route.Spec.Rules[r].BackendRefs)}

\* the Services with the referenced name in the namespace the reference gives, the
\* route's own when it gives none
ReferencedServices(route, ref) ==
    {k \in 1..Len(resources.Services) :
        /\ resources.Services[k].Name = ref.Name
        /\ resources.Services[k].Namespace =
               (IF IsNil(ref.Namespace) THEN route.Namespace ELSE Deref(ref.Namespace))}

\* the occurrences of the route that resolve to the k-th Service
OccurrencesResolvingTo(route, k) ==
    {o \in BackendRefOccurrences(route) :
        LET referenced == ReferencedServices(route, route.Spec.Rules[o[1]].BackendRefs[o[2]])
        IN referenced # {} /\ k = Min(referenced)}

BackendRefLinksOf(route) ==
    {k \in 1..Len(links) :
        links[k].Type = "backendRef" /\ links[k].Source = NodeIndexOf(route.UID)}

\* C21: in the returned snapshot the backendRef links from an HTTPRoute to a Service
\* are one per backendRef occurrence of the route whose first Service in list order with
\* the referenced name and namespace (the route's own when the reference gives none) is
\* that Service; an occurrence that names no Service adds no link, and the route has no
\* other backendRef link.
C21_BackendRefLinks ==
    Built =>
        \A r \in 1..Len(resources.HTTPRoutes) :
            LET route == resources.HTTPRoutes[r] IN
            /\ \A k \in 1..Len(resources.Services) :
                  Cardinality(LinksBetween("backendRef", route.UID, resources.Services[k].UID))
                      = Cardinality(OccurrencesResolvingTo(route, k))
            /\ Cardinality(BackendRefLinksOf(route))
                  = Cardinality(UNION {OccurrencesResolvingTo(route, k) :
                                          k \in 1..Len(resources.Services)})

\* C21 witness: a returned snapshot for a route that references one Service from more
\* than one rule, has a reference that names no Service, and is linked to the first of
\* two Services of the same name and namespace
C21_Witness ==
    /\ Built
    /\ \E r \in 1..Len(resources.HTTPRoutes) :
          LET route == resources.HTTPRoutes[r] IN
          /\ \E k \in 1..Len(resources.Services) :
                Cardinality(LinksBetween("backendRef", route.UID,
                                         resources.Services[k].UID)) >= 2
          /\ \E o \in BackendRefOccurrences(route) :
                ReferencedServices(route, route.Spec.Rules[o[1]].BackendRefs[o[2]]) = {}
          /\ \E o \in BackendRefOccurrences(route) :
                Cardinality(ReferencedServices(
                    route, route.Spec.Rules[o[1]].BackendRefs[o[2]])) = 2

\* the positions in graph.Nodes of the Listener nodes whose parent is the gateway
ListenerNodesOf(gw) ==
    {n \in 1..Len(nodes) : nodes[n].Type = "Listener" /\ nodes[n].ParentID = Ptr(gw.UID)}

\* the `listener` links that end at the n-th node, as positions of graph.Links
ListenerLinksTo(n) ==
    {k \in 1..Len(links) : links[k].Type = "listener" /\ links[k].Target = n - 1}

\* C22: in the returned snapshot a Gateway with n listeners has exactly n Listener
\* nodes; for each i < n one of them has the ID <gatewayUID>-listener-<i>, the declared
\* listener name or listener-<i> when the name is blank, the Gateway's ID as ParentID,
\* and exactly one `listener` link, from the Gateway's node.
C22_ListenerNodes ==
    Built =>
        \A g \in 1..Len(resources.Gateways) :
            LET gw == resources.Gateways[g]
                n == Len(gw.Spec.Listeners)
            IN /\ Cardinality(ListenerNodesOf(gw)) = n
               /\ \A i \in 0..(n - 1) :
                     \E k \in ListenerNodesOf(gw) :
                         /\ nodes[k].ID = gw.UID \o S("-listener-") \o Itoa(i)
                         /\ nodes[k].Name =
                                (IF gw.Spec.Listeners[i + 1].Name = Empty
                                 THEN S("listener-") \o Itoa(i)
                                 ELSE gw.Spec.Listeners[i + 1].Name)
                         /\ Cardinality(ListenerLinksTo(k)) = 1
                         /\ \A l \in ListenerLinksTo(k) :
                               links[l].Source = NodeIndexOf(gw.UID)

\* C22 witness: a returned snapshot for a Gateway with two listeners of blank name,
\* the second one named listener-1
C22_Witness ==
    /\ Built
    /\ \E g \in 1..Len(resources.Gateways) :
          LET gw == resources.Gateways[g] IN
          /\ Len(gw.Spec.Listeners) = 2
          /\ gw.Spec.Listeners[2].Name = Empty
          /\ \E k \in ListenerNodesOf(gw) : nodes[k].Name = S("listener-") \o Itoa(1)

-----------------------------------------------------------------------------
(* Properties of the extractor for the domain styles, under SpecHost *)

\* the hostname has gone through extractHierarchicalZones and is OpenShift-apps style:
\* at least 6 labels, one of them `apps` at an index i with 0 < i < len-3
OpenShiftStyleExtracted ==
    /\ hpc # "input"
    /\ Len(HostParts) >= 6
    /\ \E i \in 1..(Len(HostParts) - 4) : At(HostParts, i) = Apps

\* the 0-based indices of the `apps` labels of the hostname
AppsIndices == {i \in 0..(Len(HostParts) - 1) : At(HostParts, i) = Apps}

\* the suffixes join(labels[j:]) for j = first up to len-2, in that order
SuffixesFrom(first) ==
    [k \in 1..(Len(HostParts) - 1 - first) |-> JoinFrom(HostParts, first + k - 1)]

\* C23 as stated: the zones of an OpenShift-apps-style hostname are the suffixes from
\* the label before the located `apps` up to the last two labels; when the located
\* index is not usable (`apps` is the first label) the list is the generic-style one,
\* which has every proper suffix of two or more labels.
C23_Original ==
    OpenShiftStyleExtracted =>
        IF Min(AppsIndices) > 0
        THEN hzones = SuffixesFrom(Min(AppsIndices) - 1)
        ELSE \A j \in 1..(Len(HostParts) - 2) : JoinFrom(HostParts, j) \in Range(hzones)

\* C23 amended: the zones of an OpenShift-apps-style hostname are exactly the suffixes
\* join(labels[j:]) for j = A-1 up to len-2 in that order, A the index of the first
\* `apps` label; when the first `apps` label is the first label of the hostname the
\* list is the hostname alone (wildcard stripped), not the generic-style list.
C23_OpenShiftZones ==
    OpenShiftStyleExtracted =>
        IF Min(AppsIndices) > 0
        THEN hzones = SuffixesFrom(Min(AppsIndices) - 1)
        ELSE hzones = <<TrimWildcard(hostname)>>

\* C23 witness: the zones of a wildcard OpenShift-apps-style hostname with two `apps`
\* labels, the first of them the second label of the hostname
C23_Witness ==
    /\ OpenShiftStyleExtracted
    /\ HasWildcardPrefix(hostname)
    /\ Cardinality(AppsIndices) = 2
    /\ Min(AppsIndices) = 1
    /\ Len(hzones) = Len(HostParts) - 1

\* the hostname is cluster-internal style: it ends in cluster.local and is not
\* OpenShift-apps style
ClusterInternalStyle ==
    /\ Len(HostParts) >= 3
    /\ At(HostParts, Len(HostParts) - 2) = Label("cluster")
    /\ At(HostParts, Len(HostParts) - 1) = Label("local")
    /\ ~(Len(HostParts) >= 6 /\ \E i \in 1..(Len(HostParts) - 4) : At(HostParts, i) = Apps)

\* C24: for every cluster-internal-style hostname of 4 or more labels extractDNSZone
\* returns the last 4 labels; service.namespace.svc.cluster.local yields
\* namespace.svc.cluster.local.
C24_ClusterInternalLastFour ==
    (hpc = "basic" /\ ClusterInternalStyle /\ Len(HostParts) >= 4) =>
        /\ hbasic = JoinFrom(HostParts, Len(HostParts) - 4)
        /\ hostname = ExampleSvc =>
              hbasic = Str(<<"namespace", "svc", "cluster", "local">>)

\* C26: in the returned snapshot every node with a non-empty DNSZone names a zone of
\* graph.DNSZones whose Nodes list holds the node's ID.
C26_PrimaryZoneEmitted ==
    Built =>
        \A n \in 1..Len(nodes) :
            nodes[n].DNSZone # Empty =>
                \E k \in 1..Len(dnsZones) :
                    /\ dnsZones[k].Name = nodes[n].DNSZone
                    /\ nodes[n].ID \in Range(dnsZones[k].Nodes)

ZonedTypes == {"DNSRecord", "HTTPRoute", "Listener"}

\* the IDs listed by the emitted zones
ZoneMembers == UNION {Range(dnsZones[k].Nodes) : k \in 1..Len(dnsZones)}

\* C27: in the returned snapshot of a collection with pairwise distinct UIDs every ID
\* a zone lists is the ID of a node of graph.Nodes of type DNSRecord, HTTPRoute or
\* Listener; a GatewayClass, Gateway, ReferenceGrant or Service node is listed by no
\* zone and has an empty DNSZone.
C27_ZoneMembersAreHostnameNodes ==
    (Built /\ DistinctUIDs(resources)) =>
        /\ \A id \in ZoneMembers :
              \E n \in 1..Len(nodes) : nodes[n].ID = id /\ nodes[n].Type \in ZonedTypes
        /\ \A n \in 1..Len(nodes) :
              nodes[n].Type \notin ZonedTypes =>
                  nodes[n].DNSZone = Empty /\ nodes[n].ID \notin ZoneMembers

\* C27 witness: a returned snapshot with a zone that lists a DNSRecord and a Listener,
\* beside a Gateway, a GatewayClass and a Service node
C27_Witness ==
    /\ Built /\ DistinctUIDs(resources)
    /\ \E k \in 1..Len(dnsZones) :
          {NodeOf(id).Type : id \in Range(dnsZones[k].Nodes)} = {"DNSRecord", "Listener"}
    /\ {"Gateway", "GatewayClass", "Service"} \subseteq {nodes[n].Type : n \in 1..Len(nodes)}

\* the node types at the two ends of the k-th link
SourceType(k) == nodes[links[k].Source + 1].Type
TargetType(k) == nodes[links[k].Target + 1].Type

\* the node types a relation requires at its source and at its target
EndpointTypes ==
    [gatewayClassRef |-> <<{"GatewayClass"}, {"Gateway"}>>,
     listener |-> <<{"Gateway"}, {"Listener"}>>,
     parentRef |-> <<{"Gateway"}, {"HTTPRoute"}>>,
     dnsRecord |-> <<{"Gateway", "Listener"}, {"DNSRecord"}>>,
     backendRef |-> <<{"HTTPRoute"}, {"Service"}>>]

\* C28: in the returned snapshot of a collection with pairwise distinct UIDs every
\* link has one of the five relations and the node types the relation requires:
\* gatewayClassRef GatewayClass->Gateway, listener Gateway->Listener with the
\* Listener's ParentID the ID of the source Gateway, parentRef Gateway->HTTPRoute,
\* dnsRecord Gateway-or-Listener->DNSRecord, backendRef HTTPRoute->Service.
C28_LinkEndpointTypes ==
    (Built /\ DistinctUIDs(resources)) =>
        \A k \in 1..Len(links) :
            /\ links[k].Type \in DOMAIN EndpointTypes
            /\ SourceType(k) \in EndpointTypes[links[k].Type][1]
            /\ TargetType(k) \in EndpointTypes[links[k].Type][2]
            /\ links[k].Type = "listener" =>
                  nodes[links[k].Target + 1].ParentID = Ptr(nodes[links[k].Source + 1].ID)

\* C28 witness: a returned snapshot with links of the five relations, one dnsRecord
\* link from a Listener and one `listener` link to a second listener of a Gateway
C28_Witness ==
    /\ Built /\ DistinctUIDs(resources)
    /\ {links[k].Type : k \in 1..Len(links)} = DOMAIN EndpointTypes
    /\ \E k \in 1..Len(links) : links[k].Type = "dnsRecord" /\ SourceType(k) = "Listener"
    /\ Cardinality({k \in 1..Len(links) : links[k].Type = "listener"}) >= 2

\* the zone accumulators after the step are those of this record
AccumulatorsBecome(st) ==
    /\ dnsZoneMap' = st.dnsZoneMap
    /\ nodeZoneMap' = st.nodeZoneMap
    /\ nodePrimaryZone' = st.nodePrimaryZone

\* a step of the route pass on a hostname does what the extraction branch alone does,
\* and leaves the hostname loop exactly when the hostname has a zone
RouteStepAsExtraction ==
    (pc = "zoneRoutes" /\ idx <= Len(resources.HTTPRoutes)) =>
        LET route == resources.HTTPRoutes[idx] IN
        sub < Len(route.Spec.Hostnames) =>
            LET hostnameStr == At(route.Spec.Hostnames, sub) IN
            /\ AccumulatorsBecome(
                   ExtractZones(ZoneState(dnsZoneMap, nodeZoneMap, nodePrimaryZone),
                                hostnameStr, route.UID))
            /\ (idx' = idx + 1) <=> (extractHierarchicalZones(hostnameStr) # <<>>)

\* a step of the listener pass on a listener with a hostname does what the extraction
\* branch alone does
ListenerStepAsExtraction ==
    (pc = "zoneListeners" /\ idx <= Len(resources.Gateways)) =>
        LET gw == resources.Gateways[idx] IN
        (sub < Len(gw.Spec.Listeners) /\ ~IsNil(At(gw.Spec.Listeners, sub).Hostname)) =>
            AccumulatorsBecome(
                ExtractZones(ZoneState(dnsZoneMap, nodeZoneMap, nodePrimaryZone),
                             Deref(At(gw.Spec.Listeners, sub).Hostname),
                             ListenerID(gw.UID, sub)))

\* C29: for collections with pairwise distinct UIDs the inheritance branch changes
\* nothing: every step of the route pass and of the listener pass, on a hostname that
\* has a DNSRecord or not, leaves the zone maps, the primary zones and the loop position
\* that the extraction branch alone would leave, so the build returns the snapshot a
\* build without the inheritance branch returns.
C29_InheritanceRedundant ==
    [][DistinctUIDs(resources) => (RouteStepAsExtraction /\ ListenerStepAsExtraction)]_vars

\* C29 witness: a returned snapshot in which a listener whose hostname is the dnsName
\* of a DNSRecord went through the inheritance branch and has the record's primary zone
C29_Witness ==
    /\ Built /\ DistinctUIDs(resources)
    /\ \E g \in 1..Len(resources.Gateways), d \in 1..Len(resources.DNSRecords) :
          LET gw == resources.Gateways[g]
              dns == resources.DNSRecords[d]
          IN \E i \in 0..(Len(gw.Spec.Listeners) - 1) :
                /\ At(gw.Spec.Listeners, i).Hostname = Ptr(DNSNameOf(dns))
                /\ Has(dnsRecordHostnames, DNSNameOf(dns))
                /\ Has(nodeZoneMap, dnsRecordHostnames[DNSNameOf(dns)])
                /\ NodeOf(ListenerID(gw.UID, i)).DNSZone = NodeOf(dns.UID).DNSZone
                /\ NodeOf(dns.UID).DNSZone # Empty

\* the proper dot-suffixes of the zone name that have at least 2 labels
ProperSuffixes(z) ==
    {JoinFrom(Split(z), j) : j \in 1..(Len(Split(z)) - 2)}

\* the node is a member of every proper suffix of the zone
UpwardClosed(id, z) == \A y \in ProperSuffixes(z) : y \in ZonesOf(id)

\* the zone name is OpenShift-apps style and its first label is `apps`
AppsFirstStyle(z) ==
    /\ Len(Split(z)) >= 6
    /\ At(Split(z), 0) = Apps
    /\ \E i \in 1..(Len(Split(z)) - 4) : At(Split(z), i) = Apps

\* C30 as stated: before pruning, a member of a zone is a member of every proper
\* dot-suffix of the zone name with at least 2 labels, whatever the hostname style.
C30_Original ==
    \A z \in DOMAIN dnsZoneMap : \A id \in Range(dnsZoneMap[z]) : UpwardClosed(id, z)

\* C30 amended: before pruning, a member of a zone is a member of every proper
\* dot-suffix of the zone name with at least 2 labels, except for a node whose
\* hostname is OpenShift-apps style with `apps` as first label: such a node is a
\* member of one zone only, named by its whole hostname.
C30_UpwardClosedButAppsFirst ==
    \A z \in DOMAIN dnsZoneMap : \A id \in Range(dnsZoneMap[z]) :
        \/ UpwardClosed(id, z)
        \/ AppsFirstStyle(z) /\ ZonesOf(id) = {z}

\* C30 witness: a returned snapshot in which a listener with a wildcard OpenShift-apps
\* hostname is a member of five zones, down to the 2-label one, and a route whose
\* hostname starts with `apps` is a member of the zone of its whole hostname only
C30_Witness ==
    /\ Built
    /\ \E id \in DOMAIN nodeZoneMap :
          /\ NodeOf(id).Type = "Listener"
          /\ Cardinality(ZonesOf(id)) = 5
          /\ \E z \in ZonesOf(id) : Depth(z) = 2
    /\ \E id \in DOMAIN nodeZoneMap :
          /\ NodeOf(id).Type = "HTTPRoute"
          /\ ZonesOf(id) = {HostAppsFirst}

-----------------------------------------------------------------------------
(* Properties of HandleWebSocket, under SpecWS *)

\* every tick received so far has had its fetch; its build and its write follow in
\* that order, one of each
OnePerTick ==
    /\ fetches = ticks
    /\ builds = ticks
    /\ writes = (IF pc = "idle" THEN builds ELSE builds - 1)
    /\ Len(sent) + failedWrites = writes

\* a step writes only the snapshot of the build that just ended, builds only after a
\* tick and its fetch, and does nothing once the handler has returned
WebSocketStep ==
    /\ (writes' # writes) =>
          /\ pc = "return" /\ pc' = "idle" /\ writes' = writes + 1
          /\ sent' \in {sent, Append(sent, Graph)}
          /\ (sent' = sent) => (conn' = "closed")
    /\ (builds' # builds) => (fetches' = fetches + 1 /\ ticks' = ticks + 1)
    /\ (conn \in {"failed", "closed"}) =>
          UNCHANGED <<conn, ticks, fetches, builds, writes, sent, pc, graphVars>>

\* C25: on an upgraded connection every tick is followed by one fetch, one buildGraph
\* and one WriteJSON, in that order; what is written is the complete snapshot of that
\* build; the first failed write ends the handler, which closes the connection, and
\* after it nothing is fetched, built or written on the connection.
C25_OneSnapshotPerTick ==
    /\ [](OnePerTick /\ failedWrites <= 1 /\ (failedWrites = 1 => conn = "closed"))
    /\ [][WebSocketStep]_vars

\* C25 witness: a connection closed by a failed write on its second tick, after the
\* snapshot of the first tick, with nodes, links and zones, was written
C25_Witness ==
    /\ conn = "closed"
    /\ ticks = 2
    /\ writes = 2
    /\ failedWrites = 1
    /\ Len(sent) = 1
    /\ sent[1].Nodes # <<>> /\ sent[1].Links # <<>> /\ sent[1].DNSZones # <<>>

-----------------------------------------------------------------------------
(* Properties of fetchAllResources and GetGraph, under SpecFetch *)

\* a request has fetched its collection
Fetched == builds > 0

\* C12: whatever subset of the six list calls fails, the collection handed to
\* buildGraph has an empty list for each failed category and the cluster's list for
\* every other one; GetGraph never answers 500, and once a request is over it has
\* answered 200 with a snapshot holding one node per fetched resource and listener.
C12_PartialFetch ==
    /\ status # 500
    /\ Fetched =>
          /\ \A c \in Categories :
                resources[c] = IF c \in failing THEN <<>> ELSE cluster[c]
          /\ pc = "idle" =>
                /\ status = 200
                /\ returned = <<Graph>>
                /\ \A c \in Categories \ failing : \A k \in 1..Len(cluster[c]) :
                      \E n \in 1..Len(nodes) : nodes[n].ID = cluster[c][k].UID

\* C12 witness: a request answered 200 although some list calls failed for categories
\* the cluster has resources of, with the nodes of the categories that were listed
C12_Witness ==
    /\ Fetched /\ pc = "idle" /\ status = 200
    /\ \E c \in failing : cluster[c] # <<>>
    /\ \E c \in Categories \ failing : cluster[c] # <<>>
    /\ nodes # <<>>

-----------------------------------------------------------------------------
(* Properties of concurrent invocations, under SpecConc *)

ZoneMembership(g) ==
    {[Name |-> g.DNSZones[k].Name, Nodes |-> g.DNSZones[k].Nodes] :
        k \in 1..Len(g.DNSZones)}

\* the same nodes and links, and the same zones with the same members
SameSnapshot(g, h) ==
    /\ g.Nodes = h.Nodes
    /\ g.Links = h.Links
    /\ Len(g.DNSZones) = Len(h.DNSZones)
    /\ ZoneMembership(g) = ZoneMembership(h)

\* C14: an invocation of buildGraph that ran interleaved in any way with another one on
\* the same Handler returns the nodes, links and zones that the request served alone
\* returned for the same collection; the other invocation's locals are not touched
\* while it does not run.
C14_NoInterference ==
    (pc = "return" /\ returned # <<>>) => SameSnapshot(Graph, returned[1])

\* C14 witness: an invocation returns while the other one is in the middle of its zone
\* passes, both started after the first request was served
C14_Witness ==
    /\ pc = "return"
    /\ returned # <<>>
    /\ builds = 3
    /\ other.pc \in {"zoneRoutes", "zoneListeners"}
    /\ other.dnsZoneMap # EmptyMap
    /\ Len(dnsZones) >= 2

-----------------------------------------------------------------------------
(* Properties of UpdateResource, under SpecUpdate *)

\* the step handles an UpdateResource request for this type
Handles(type) == updates' = updates + 1 /\ request'.type = type

\* the request names the stored object of its type
NamesStored(req) ==
    /\ req.type \in ResourceTypes
    /\ ~IsNil(req.body)
    /\ stored[req.type].Name = req.name

\* the payload has a metadata.name or a metadata.namespace other than the stored ones
RenamesOrMoves(req) ==
    /\ ~IsNil(Deref(req.body).metadata)
    /\ LET m == Deref(Deref(req.body).metadata) IN
       \/ m.name \notin {Nil, Ptr(stored[req.type].Name)}
       \/ m.namespace \notin {Nil, Ptr(stored[req.type].Namespace)}

\* C17: an UpdateResource request for the stored Gateway whose payload has a
\* metadata.name or metadata.namespace that differs from the Gateway's is answered
\* with an error, makes no Update call, and leaves the stored objects unchanged.
C17_GatewayRenameRejected ==
    [][(Handles("gateway") /\ NamesStored(request') /\ RenamesOrMoves(request'))
          => /\ response' = 500
             /\ updateCalls' = updateCalls
             /\ stored' = stored]_vars

\* C17 witness: a rejected request for the Gateway whose payload renames it and also
\* carries a new spec and new labels
C17_Witness ==
    /\ request.type = "gateway"
    /\ request.name = "r1"
    /\ response = 500
    /\ updateCalls = 0
    /\ ~IsNil(request.body)
    /\ ~IsNil(Deref(request.body).spec)
    /\ ~IsNil(Deref(request.body).metadata)
    /\ Deref(Deref(request.body).metadata).name = Ptr("r2")
    /\ ~IsNil(Deref(Deref(request.body).metadata).labels)

\* C18: for every supported resource type, a request answered with success has set
\* the fields of the payload's spec, and the payload's metadata.labels and
\* metadata.annotations when it has them, on the stored object; name and namespace of
\* the stored objects never change.
C18_SuccessAppliesPayload ==
    [][/\ \A t \in ResourceTypes :
             /\ stored'[t].Name = stored[t].Name
             /\ stored'[t].Namespace = stored[t].Namespace
       /\ (updates' = updates + 1 /\ response' = 200) =>
             LET data == Deref(request'.body)
                 object == stored'[request'.type]
             IN /\ ~IsNil(data.spec) =>
                      \A k \in DOMAIN Deref(data.spec) : object.Spec[k] = Deref(data.spec)[k]
                /\ ~IsNil(data.metadata) =>
                      LET m == Deref(data.metadata) IN
                      /\ ~IsNil(m.labels) => object.Labels = Deref(m.labels)
                      /\ ~IsNil(m.annotations) => object.Annotations = Deref(m.annotations)
      ]_vars

=============================================================================
